---- MODULE Spec2Model ----
(***************************************************************************)
(* Word Portrait generator: the word placement engine (WordPlacer), the    *)
(* filters and the mask / colour queries of the ImageProcessor, and the    *)
(* generation orchestration of CanvasRenderer (generate, processGeneration)*)
(* with the EventBus listeners and the global ErrorHandler; the colour     *)
(* conversions of colorUtils; the word list, the image and the presets of  *)
(* WordSettings, StateManager and PresetService.                           *)
(*                                                                         *)
(* Conventions.                                                            *)
(*  - A pixel buffer (Uint8ClampedArray, RGBA interleaved) is a function   *)
(*    from the pixel number p = idx / 4 to a record [r, g, b, a].          *)
(*  - Brightness is kept exact in thousandths: calculateBrightness returns *)
(*    299 r + 587 g + 114 b, and a comparison with a value v of the code   *)
(*    is a comparison with 1000 v, corrected by the rounding of the double *)
(*    where the exact brightness equals v (BrightnessAbove, -Below).       *)
(*  - A tier's scale is kept in tenths: scale10 = 10 * scale.              *)
(***************************************************************************)
EXTENDS Integers, Sequences, FiniteSets, TLC

VARIABLES
    sizeTiers,      \* WordPlacer.sizeTiers
    options,        \* the options record handed to placeWords
    imageData,      \* the processed pixel buffer handed to placeWords
    pc,             \* position of the placeWords call: idle / placing / done
    grid,           \* the collision grid of the current run
    tierIdx,        \* index of the tier of the for-of loop (1-based)
    i,              \* attempt counter of the inner for loop
    commits,        \* boxes of the words drawn (fillText) in this run, with multiplicity
    lastCommit,     \* the last word drawn, with its colour and sampled pixel
    attemptLog,     \* scale10 of the tier of every attempt, in order, runs of equal values merged
    attemptsDone,   \* per tier, the number of loop iterations executed
    markedBox,      \* the box of a markGrid call made on its own, <<>> before it
    selfCollision,  \* checkCollision over markedBox, right after that markGrid
    image,          \* stateManager state.image: "null" or "img"
    isGenerating,   \* CanvasRenderer._isGenerating
    loadingHidden,  \* the loading indicator carries the class hidden
    emptyHidden,    \* the empty-state element carries the class hidden
    downloadDisabled, \* downloadBtn.disabled
    mainCanvas,     \* the main canvas: size, and whether a run painted it
    processingCanvas, \* the processing canvas, likewise
    fontWaits,      \* generate() calls suspended at await document.fonts.ready
    timers,         \* pending setTimeout callbacks that call processGeneration
    eventLog,       \* the generation events emitted on the event bus, in order
    errors,         \* ErrorHandler._errors.length
    alerts,         \* alert() dialogs shown
    calls,          \* generate() calls made
    errorEvents,    \* window error events raised by code outside the pipeline
    lastStep,       \* the handler that ran last, with its outcome
    runPc,          \* position of a processGeneration call on the stack, "none" outside
    payloads,       \* the payload kind of every event of eventLog, in order
    buf,            \* the ImageData a filter works on: width, height, data
    bufPrev,        \* the ImageData before the last filter call
    filterLog,      \* the canvas and filter calls made, in order, with their argument
    procOptions,    \* the options of processImage: threshold, edges, negative, negativeColor
    ipc,            \* position of a processImage call
    maskQuery,      \* the last mask / colour query and its results, <<>> before it
    drawCall,       \* the last draw-rectangle computation of processImage, <<>> before it
    colorCall,      \* the last rgbToHex / hexToRgb round trip, <<>> before it
    runs,           \* per completed earlier placeWords run, the number of words it drew
    state,          \* StateManager._state: words, heroWords, image, density
    presets,        \* PresetService._presets: name -> stored preset
    presetOp,       \* the last operation on state or presets, <<>> before it
    listeners,      \* EventBus.listeners: per event its Set object, 0 for no entry
    setData,        \* the Set objects made so far: entries in insertion order, Empty where deleted
    emitStack,      \* the emit calls in progress, innermost last
    subs,           \* the on / once calls made, in order
    emitLog,        \* the emit calls made, with the listeners subscribed at the call
    invoked,        \* the listener invocations made by emit, in order
    removals,       \* the off, unsubscribe and clear calls made
    now,            \* the time, in milliseconds since the page was loaded
    timeoutId,      \* timeoutId of the debounced density setter: a timer id, 0 for null
    timerTasks,     \* the timers set by setTimeout that are neither fired nor cleared
    callLog,        \* the calls of the debounced function: time and argument
    funcLog,        \* the calls of func made by the timers: time, argument, call that set the timer
    readyState,     \* document.readyState
    initialized,    \* App._initialized
    domListeners,   \* the DOMContentLoaded listeners App.init has added to the document
    dispatching,    \* the listeners the DOMContentLoaded event in progress has still to call
    components,     \* App.components.length
    componentsMade, \* the components created since the construction or the last destroy()
    bootstrapRuns,  \* the _bootstrap calls since the construction or the last destroy()
    appCalls,       \* the init() and destroy() calls made
    subscribers,    \* StateManager._subscribers.size
    stateCall,      \* the last setState call: updates, silent, the state and the subscribers before it
    notified,       \* the subscriber calls and STATE_CHANGED events of the last setState call
    savedState      \* per preset name, the state at the savePreset call that stored the preset

placeVars == <<sizeTiers, options, imageData, pc, grid, tierIdx, i, commits,
               lastCommit, attemptLog, attemptsDone>>

gridCheckVars == <<markedBox, selfCollision>>

genVars == <<image, isGenerating, loadingHidden, emptyHidden, downloadDisabled,
             mainCanvas, processingCanvas, fontWaits, timers, eventLog, errors,
             alerts, calls, errorEvents, lastStep>>

runVars == <<runPc, payloads>>

filterVars == <<buf, bufPrev, filterLog, procOptions, ipc, maskQuery>>

busVars == <<listeners, setData, emitStack, subs, emitLog, invoked, removals>>

debounceVars == <<now, timeoutId, timerTasks, callLog, funcLog>>

appVars == <<readyState, initialized, domListeners, dispatching, components,
             componentsMade, bootstrapRuns, appCalls>>

stateVars == <<subscribers, stateCall, notified>>

pageVars == <<busVars, debounceVars, appVars, stateVars, savedState>>

sessionVars == <<drawCall, colorCall, runs, state, presets, presetOp, pageVars>>

vars == <<placeVars, gridCheckVars, genVars, runVars, filterVars, sessionVars>>

(* what the steps of a placement run leave alone *)
notPlaceVars == <<gridCheckVars, genVars, runVars, filterVars, sessionVars>>

----------------------------------------------------------------------------
(* Bounds of the model *)

CanvasW == 5
CanvasH == 5
TierAttempts == 2

(* Program constants *)

MAX_ATTEMPTS == 50000
GIANT_SCALE10 == 30
GIANT_MAX_BRIGHTNESS == 100
GRID_PADDING == 2
MIN_ALPHA == 10

----------------------------------------------------------------------------
(* Arithmetic helpers *)

Min(a, b) == IF a < b THEN a ELSE b

Max(a, b) == IF a > b THEN a ELSE b

(* Math.ceil(n / d) for d > 0 *)
CeilDiv(n, d) == -((-n) \div d)

----------------------------------------------------------------------------
(* colorUtils *)

calculateBrightness(r, g, b) == 299 * r + 587 * g + 114 * b

(* the pixels (65536 r + 256 g + b) whose brightness is a whole number that
   the double arithmetic of calculateBrightness returns slightly too high *)
BrightnessRoundedUp ==
    {94669, 95611, 96553, 191222, 193106, 475460, 713298, 950920, 1048415, 1301888, 1894967,
     2060644, 2061586, 2157197, 2745787, 2916895, 3012506, 3550217, 3602980, 3633524,
     3642281, 3859058, 3895754, 4070409, 4121288, 4123172, 4477471, 4499474, 4709878,
     4925718, 4978481, 5469576, 5567071, 5599499, 5608256, 6087263, 6324885, 6413623,
     7100434, 7127647, 7144224, 7160075, 7168832, 7251197, 7267048, 7435551, 7531162,
     7930193, 7955743, 7999533, 8024141, 8068873, 8121636, 8124241, 8140818, 8147691,
     8209216, 8290860, 8388355, 8641828, 8648701, 8934602, 8954942, 8970793, 8975061,
     8996127, 9007489, 9495253, 9851436, 9935685, 10085727, 10352446, 10813723, 10830295,
     10973464, 11198998, 11687488, 11755886, 11769853, 11796345, 11899776, 12049818,
     12616405, 12640292, 12642897, 12647165, 12659474, 12666347, 12796270, 12907011,
     13167357, 13427203, 13583181, 13597148, 13727071, 13760436, 14163014, 14171771,
     14190227, 14200868, 14207741, 14287506, 14288448, 14320150, 14337664, 14350910,
     14454341, 14467587, 14606988, 14871102, 15013834, 15018323, 15034174, 15036779,
     15054293, 15143757, 15157003, 15170970, 15184216, 15197462, 15204335, 15280553,
     15300893, 15307766, 15860386, 15861328, 15869143, 15898240, 15911486, 15999066,
     16012312, 16014917, 16028163, 16035036, 16048282, 16050887, 16122616, 16137746,
     16164959, 16253481, 16281636, 16288509, 16315001, 16418432, 16548355}

(* and those for which it returns it slightly too low *)
BrightnessRoundedDown ==
    {18456, 32423, 36912, 41180, 45669, 46611, 60578, 65067, 65793, 71945, 78097, 80702,
     131586, 140343, 143890, 150042, 156194, 161404, 162346, 165893, 170161, 171103, 172045,
     174650, 184349, 206136, 209683, 212288, 218440, 254410, 256294, 257957, 258899, 260562,
     263172, 280686, 281628, 287780, 290385, 294653, 299142, 300084, 303631, 307899, 308841,
     309783, 312388, 318540, 322808, 324692, 327297, 341269, 342932, 343874, 347421, 350026,
     403515, 409667, 412272, 413214, 419366, 423634, 424576, 425518, 428123, 429065, 433333,
     434275, 435938, 436880, 437822, 441369, 447521, 473576, 474518, 478065, 479007, 483275,
     509767, 515919, 518524, 520187, 521129, 523013, 526344, 552615, 553557, 554499, 557104,
     561372, 562314, 563256, 565861, 566803, 572013, 572955, 575560, 580770, 585259, 586922,
     588806, 589527, 598289, 626444, 634259, 649168, 651052, 664082, 682538, 686085, 686806,
     687748, 690353, 691295, 692237, 694842, 696505, 700052, 700994, 703599, 704541, 709751,
     710693, 723723, 729875, 763240, 764182, 776486, 778149, 779091, 780033, 780754, 782638,
     783359, 785243, 807030, 814845, 815787, 816729, 817671, 819334, 820276, 823823, 824544,
     825486, 826428, 828091, 829033, 829975, 832580, 834243, 835185, 838732, 843000, 844884,
     847489, 851036, 855309, 867613, 878975, 879917, 887732, 888674, 901920, 913282, 915887,
     927254, 929859, 943105, 944768, 949257, 953525, 955409, 956130, 958014, 964166, 972923,
     989500, 993047, 998257, 999199, 1005351, 1016713, 1017655, 1025470, 1026412, 1027354,
     1029959, 1038716, 1040379, 1041321, 1052688, 1058840, 1067597, 1105451, 1107114,
     1108998, 1109719, 1111603, 1113266, 1129843, 1136937, 1146636, 1150904, 1154451,
     1155393, 1165092, 1171244, 1175512, 1196578, 1199183, 1206277, 1235153, 1258824,
     1260487, 1261429, 1268523, 1278943, 1279885, 1280827, 1283432, 1284374, 1288642,
     1289584, 1293131, 1296678, 1327222, 1328164, 1330769, 1365076, 1367681, 1371228,
     1372170, 1373833, 1389468, 1390410, 1399167, 1400109, 1407924, 1408866, 1409808,
     1416681, 1417623, 1418565, 1421170, 1422112, 1428264, 1433474, 1436079, 1437963,
     1447446, 1458808, 1459750, 1463297, 1468507, 1469449, 1481753, 1490510, 1497604,
     1506361, 1536905, 1537847, 1542115, 1543057, 1543999, 1545662, 1546604, 1547546,
     1550151, 1551814, 1556303, 1578090, 1614060, 1619491, 1625643, 1627306, 1629190,
     1629911, 1631795, 1633458, 1634400, 1635342, 1636063, 1637947, 1666828, 1671096,
     1672038, 1672980, 1674643, 1675585, 1680795, 1681737, 1684342, 1685284, 1689552,
     1690494, 1691436, 1695704, 1697588, 1700193, 1702798, 1710618, 1716770, 1730737,
     1731679, 1735226, 1743983, 1744925, 1757229, 1757950, 1759834, 1768591, 1776411,
     1792262, 1800077, 1804566, 1806229, 1808834, 1810718, 1813323, 1819475, 1854508,
     1859718, 1864207, 1872964, 1882663, 1886210, 1887873, 1897572, 1898514, 1900177,
     1901845, 1916754, 1923848, 1928116, 1930000, 1934268, 1936152, 1936873, 1938757,
     1941362, 1943025, 1944909, 1952003, 1953666, 1956271, 1958155, 1959818, 1962423,
     1964307, 1965028, 1979000, 1979942, 1983489, 1986094, 1993909, 1996514, 1997456,
     1998398, 2001945, 2006213, 2007155, 2010702, 2019459, 2022064, 2026553, 2030821,
     2045735, 2047398, 2055434, 2083589, 2086194, 2105376, 2114133, 2115075, 2117680,
     2126437, 2127379, 2134252, 2135194, 2136136, 2139683, 2145835, 2167622, 2176379,
     2177321, 2183473, 2187020, 2215896, 2220385, 2222048, 2222990, 2223932, 2226537,
     2245719, 2246661, 2255418, 2259686, 2260628, 2264175, 2265117, 2269385, 2273874,
     2274816, 2277421, 2288783, 2293272, 2337062, 2345819, 2348424, 2352913, 2369269,
     2374700, 2379910, 2384399, 2388667, 2389609, 2390551, 2393156, 2397424, 2398366,
     2399308, 2401913, 2402855, 2406402, 2408065, 2412554, 2427247, 2439551, 2440493,
     2443098, 2444040, 2448308, 2449250, 2461554, 2476463, 2478347, 2482615, 2484499,
     2485220, 2486162, 2487104, 2488767, 2489709, 2503681, 2516706, 2517648, 2518590,
     2522137, 2522858, 2526405, 2527347, 2528289, 2530894, 2537046, 2537988, 2546745,
     2551013, 2552897, 2555502, 2565927, 2590535, 2599292, 2600234, 2603781, 2608049,
     2610654, 2615143, 2625568, 2634325, 2635267, 2641419, 2646629, 2647571, 2651839,
     2652781, 2653723, 2654444, 2655386, 2656328, 2659875, 2661538, 2662480, 2665085,
     2666027, 2669574, 2670295, 2674784, 2696571, 2715027, 2723784, 2728273, 2744124,
     2746729, 2748392, 2749334, 2751939, 2765911, 2773005, 2780820, 2785309, 2789577,
     2791461, 2794066, 2796671, 2798334, 2800218, 2808975, 2813464, 2815127, 2817732,
     2832646, 2844950, 2852765, 2853707, 2857254, 2866953, 2868616, 2877373, 2879257,
     2881862, 2888740, 2894892, 2901044, 2908859, 2910743, 2913348, 2915011, 2917616,
     2919500, 2922105, 2923768, 2926594, 2928257, 2932746, 2937014, 2938898, 2963290,
     2964232, 2970384, 2981746, 2982688, 2990503, 2991445, 2992387, 2994992, 3023873,
     3032630, 3035235, 3042329, 3066937, 3071205, 3073089, 3075694, 3077357, 3079241,
     3094876, 3095818, 3110727, 3114995, 3115937, 3116879, 3119484, 3120426, 3123973,
     3141487, 3144092, 3156180, 3161611, 3201128, 3208222, 3226462, 3227404, 3230009,
     3235219, 3243976, 3244918, 3245860, 3248465, 3254617, 3255559, 3258164, 3263374,
     3286103, 3287045, 3295802, 3304559, 3316863, 3317805, 3329167, 3333656, 3335319,
     3337924, 3339808, 3340529, 3341471, 3354501, 3355443, 3364200, 3365142, 3372957,
     3373899, 3377446, 3378167, 3379109, 3382656, 3383598, 3386203, 3387145, 3393297,
     3399449, 3402054, 3403717, 3406322, 3421236, 3433540, 3446786, 3457206, 3459090,
     3461695, 3463358, 3470452, 3483482, 3497449, 3501938, 3502880, 3507148, 3508090,
     3509032, 3510695, 3511637, 3512579, 3515184, 3516847, 3517789, 3525604, 3552822,
     3571278, 3580035, 3584524, 3593281, 3595886, 3597549, 3627372, 3636129, 3640618,
     3646770, 3655527, 3661679, 3664284, 3668773, 3681803, 3687955, 3695770, 3700259,
     3708074, 3709016, 3709958, 3728414, 3732682, 3734566, 3741444, 3745712, 3750201,
     3764168, 3766052, 3768657, 3770320, 3772204, 3774809, 3777414, 3781903, 3783566,
     3796812, 3803690, 3819541, 3825693, 3832566, 3833508, 3837055, 3837997, 3847696,
     3860000, 3861663, 3862605, 3864268, 3873030, 3874693, 3875635, 3881787, 3889602,
     3894091, 3898359, 3900243, 3902848, 3907337, 3909000, 3913489, 3917757, 3919641,
     3922246, 3923909, 3925793, 3926514, 3928398, 3931003, 3941428, 3944033, 3944975,
     3951127, 3953732, 3958000, 3959884, 3961547, 3962489, 3963431, 3966978, 3971246,
     3972188, 3973130, 3975735, 3980945, 3981887, 3983550, 3986155, 3990644, 3996796,
     4013373, 4022130, 4045796, 4047680, 4050285, 4059042, 4073014, 4082713, 4091470,
     4095738, 4099285, 4100227, 4101169, 4104716, 4110868, 4141412, 4142354, 4151111,
     4164357, 4173114, 4181871, 4184476, 4188023, 4188965, 4190628, 4192512, 4193233,
     4195843, 4201995, 4208147, 4210752, 4215020, 4220451, 4224719, 4225661, 4226603,
     4228266, 4229208, 4230150, 4235360, 4238907, 4248606, 4252874, 4254758, 4257363,
     4259026, 4261636, 4270393, 4275603, 4284360, 4302095, 4309910, 4312515, 4314399,
     4317004, 4321272, 4335244, 4339733, 4344943, 4345885, 4352758, 4353700, 4354642,
     4355584, 4357247, 4358189, 4363399, 4364341, 4366946, 4367888, 4374040, 4380913,
     4393222, 4404584, 4405526, 4413341, 4414283, 4417830, 4426587, 4427529, 4439833,
     4442438, 4444101, 4446706, 4448590, 4450253, 4451195, 4452137, 4452858, 4454742,
     4455684, 4482681, 4487170, 4488833, 4491438, 4493322, 4495927, 4497590, 4502079,
     4510836, 4516988, 4519593, 4521477, 4537112, 4542322, 4555568, 4565267, 4574024,
     4576629, 4579234, 4583723, 4608115, 4616872, 4618756, 4619477, 4621361, 4627513,
     4636270, 4661604, 4662546, 4668698, 4676513, 4681002, 4684549, 4688817, 4689759,
     4693306, 4709157, 4710820, 4713425, 4716030, 4728339, 4730944, 4740643, 4744911,
     4746795, 4749400, 4751063, 4755552, 4758157, 4762646, 4764309, 4768798, 4773066,
     4774950, 4777555, 4779218, 4781102, 4781823, 4783707, 4787980, 4790585, 4800284,
     4804552, 4806436, 4809041, 4817798, 4818740, 4822287, 4828439, 4832707, 4837196,
     4841464, 4843348, 4845953, 4850226, 4854494, 4859925, 4866077, 4870345, 4872950,
     4874834, 4877439, 4879102, 4880986, 4883591, 4886196, 4888080, 4889743, 4894232,
     4898500, 4901105, 4902989, 4914351, 4928323, 4938022, 4946779, 4947721, 4951989,
     4956478, 4960025, 5007362, 5028423, 5031028, 5037180, 5039785, 5041669, 5043332,
     5044274, 5045937, 5057304, 5062514, 5075760, 5080028, 5080970, 5081912, 5084517,
     5085459, 5090669, 5099426, 5103915, 5105578, 5107462, 5108183, 5110067, 5122155,
     5131854, 5139669, 5165219, 5167824, 5181796, 5191495, 5200252, 5201194, 5204741,
     5209009, 5209951, 5210893, 5213498, 5219650, 5229349, 5248531, 5251136, 5260835,
     5268650, 5269592, 5270534, 5281896, 5282838, 5288990, 5290653, 5293258, 5295142,
     5297747, 5299410, 5301294, 5302015, 5303899, 5305562, 5306504, 5307446, 5310777,
     5319534, 5320476, 5324744, 5329233, 5337990, 5338932, 5342479, 5344142, 5345084,
     5347689, 5348631, 5352899, 5357388, 5361656, 5366145, 5369692, 5370634, 5372297,
     5393142, 5397631, 5406388, 5420576, 5423181, 5427449, 5434543, 5436427, 5448515,
     5463424, 5467913, 5472181, 5474065, 5476670, 5482822, 5491579, 5517855, 5523065,
     5527554, 5531822, 5535369, 5536311, 5546010, 5557372, 5559977, 5568013, 5569676,
     5577496, 5591463, 5593347, 5595952, 5600220, 5602104, 5604709, 5606372, 5610861,
     5619618, 5624107, 5627654, 5628375, 5630259, 5631922, 5632864, 5634527, 5637137,
     5641405, 5659861, 5661745, 5665292, 5673107, 5674049, 5689900, 5691563, 5698657,
     5701262, 5702930, 5710745, 5711687, 5715234, 5721386, 5724933, 5725654, 5730143,
     5736295, 5738900, 5743389, 5745052, 5749541, 5753809, 5756414, 5768723, 5771328,
     5777480, 5781027, 5785295, 5787179, 5789784, 5797599, 5798541, 5799483, 5802088,
     5803030, 5813450, 5821486, 5824091, 5825754, 5826696, 5877580, 5881848, 5883732,
     5886337, 5889884, 5890826, 5892489, 5895094, 5896978, 5917823, 5918765, 5926580,
     5927522, 5928464, 5937221, 5940768, 5954735, 5956619, 5960887, 5962771, 5963492,
     5968707, 5978406, 5987163, 5988105, 6000409, 6011771, 6016260, 6025017, 6037105,
     6038047, 6047746, 6055561, 6056503, 6060771, 6061713, 6065260, 6066202, 6068807,
     6070470, 6084658, 6097688, 6106445, 6116144, 6139810, 6144299, 6145962, 6147846,
     6148567, 6150451, 6152114, 6153056, 6153998, 6154719, 6156603, 6159208, 6180053,
     6180995, 6185484, 6189752, 6190694, 6191636, 6193299, 6194241, 6200393, 6208208,
     6218849, 6221454, 6225001, 6229274, 6230937, 6235426, 6240636, 6241578, 6245125,
     6249393, 6250335, 6253882, 6262639, 6269733, 6274001, 6275885, 6276606, 6278490,
     6287247, 6309976, 6318733, 6323222, 6329374, 6338131, 6346888, 6378374, 6382863,
     6391620, 6401319, 6403924, 6406529, 6416228, 6417170, 6418833, 6419775, 6421438,
     6438015, 6446772, 6448656, 6452924, 6454808, 6457413, 6460018, 6461681, 6463565,
     6474927, 6476811, 6481079, 6482963, 6483684, 6485568, 6487231, 6502145, 6503808,
     6508297, 6512565, 6515170, 6520601, 6536452, 6538115, 6540720, 6545209, 6549477,
     6557297, 6558239, 6572206, 6574090, 6576695, 6580963, 6582847, 6585452, 6591604,
     6600361, 6602245, 6604850, 6609118, 6626637, 6633731, 6636336, 6640604, 6642488,
     6645093, 6653850, 6654792, 6658339, 6668038, 6670643, 6672306, 6673248, 6674911,
     6680342, 6682947, 6695977, 6700245, 6702129, 6710886, 6713491, 6717038, 6719643,
     6724132, 6725795, 6728400, 6730284, 6739041, 6741646, 6745193, 6747798, 6755618,
     6765317, 6766038, 6770527, 6774074, 6782831, 6783773, 6794193, 6796798, 6802229,
     6804834, 6807439, 6811928, 6842472, 6843414, 6855718, 6858323, 6862591, 6864475,
     6867080, 6871569, 6880326, 6893356, 6903055, 6911812, 6917964, 6921511, 6931210,
     6966964, 6992514, 6995119, 6997003, 7001271, 7003155, 7003876, 7005760, 7007423,
     7008365, 7009307, 7010028, 7011912, 7022337, 7027547, 7028489, 7035362, 7036304,
     7040793, 7046003, 7046945, 7049550, 7056644, 7065401, 7069669, 7071553, 7074158,
     7096887, 7105644, 7109191, 7120553, 7131194, 7133799, 7142556, 7165285, 7174042,
     7178531, 7180194, 7184683, 7193440, 7233683, 7254744, 7265385, 7267990, 7270595,
     7290719, 7303965, 7310117, 7316990, 7318874, 7327631, 7332120, 7333783, 7336388,
     7338272, 7338993, 7359117, 7363606, 7367874, 7371421, 7372363, 7375910, 7384667,
     7387272, 7400518, 7404786, 7413548, 7423247, 7427515, 7429399, 7432004, 7438156,
     7440761, 7442424, 7445250, 7446913, 7451402, 7455670, 7457554, 7460159, 7482888,
     7487156, 7489040, 7495913, 7497797, 7500402, 7501344, 7511043, 7517195, 7518858,
     7521463, 7524068, 7529499, 7532104, 7533767, 7534709, 7536372, 7542529, 7552949,
     7555554, 7557438, 7560985, 7566195, 7572347, 7576836, 7581104, 7585593, 7589861,
     7594350, 7596013, 7597897, 7600502, 7604775, 7606438, 7607380, 7616137, 7617079,
     7621347, 7625836, 7629383, 7634593, 7639082, 7642629, 7648781, 7651386, 7653991,
     7655654, 7662748, 7667237, 7673173, 7674115, 7676720, 7680988, 7682872, 7685477,
     7691629, 7694234, 7698723, 7700386, 7704875, 7709143, 7711027, 7713632, 7719784,
     7722389, 7726878, 7735419, 7736361, 7742513, 7746060, 7751270, 7753875, 7760027,
     7762632, 7763574, 7764516, 7767121, 7774936, 7782030, 7785577, 7788182, 7790787,
     7797881, 7804759, 7805701, 7814458, 7819668, 7823215, 7824157, 7828425, 7830309,
     7832914, 7834577, 7837182, 7839066, 7847823, 7852312, 7856580, 7858464, 7859185,
     7860127, 7861069, 7862732, 7867005, 7869610, 7871494, 7874099, 7878367, 7879309,
     7882856, 7883798, 7888066, 7889950, 7891613, 7892555, 7896102, 7902254, 7904859,
     7907464, 7911953, 7918105, 7919768, 7920710, 7924978, 7926862, 7929467, 7943439,
     7952196, 7965442, 7977746, 7980351, 7982014, 7984619, 7989108, 8016105, 8020594,
     8026746, 8031235, 8035503, 8044260, 8048749, 8075746, 8101296, 8111937, 8114542,
     8146028, 8154785, 8159274, 8165426, 8174183, 8182940, 8187429, 8189092, 8190976,
     8191697, 8200459, 8205669, 8214426, 8218915, 8228614, 8233824, 8235487, 8247070,
     8251338, 8253222, 8255827, 8274067, 8282824, 8284708, 8287313, 8288976, 8302222,
     8310979, 8312863, 8344349, 8355711, 8356653, 8365410, 8368015, 8378656, 8380319,
     8381261, 8382924, 8385529, 8391686, 8393349, 8403990, 8408258, 8412747, 8416294,
     8418899, 8421504, 8425993, 8427656, 8432145, 8436413, 8440902, 8445170, 8447054,
     8449659, 8451322, 8453206, 8460084, 8463631, 8467899, 8469783, 8472388, 8476656,
     8478540, 8481145, 8485634, 8497938, 8500543, 8502206, 8504811, 8515452, 8518057,
     8522330, 8523272, 8529424, 8536297, 8538181, 8540786, 8546938, 8549543, 8551427,
     8554032, 8555695, 8557579, 8564452, 8566336, 8568941, 8575093, 8582187, 8591670,
     8597822, 8601369, 8606579, 8619825, 8623372, 8629524, 8632129, 8634734, 8636397,
     8644433, 8647038, 8647980, 8649643, 8653916, 8666220, 8669767, 8674977, 8678524,
     8679466, 8681129, 8683013, 8685618, 8689886, 8691770, 8694375, 8703132, 8707621,
     8709284, 8711168, 8711889, 8713773, 8714494, 8715436, 8720651, 8723256, 8725861,
     8732013, 8734618, 8739107, 8740770, 8743375, 8747864, 8748806, 8755679, 8766320,
     8767262, 8768925, 8771530, 8773414, 8776019, 8777682, 8780287, 8782897, 8785502,
     8786444, 8789049, 8794259, 8795201, 8800411, 8803016, 8804900, 8807505, 8809168,
     8811052, 8813657, 8819809, 8822414, 8828566, 8831171, 8833055, 8835660, 8837323,
     8844417, 8851295, 8852237, 8854842, 8860052, 8863599, 8864541, 8868809, 8870693,
     8871414, 8873298, 8875903, 8876845, 8882997, 8888207, 8898848, 8899569, 8900511,
     8901453, 8903116, 8905721, 8908547, 8911152, 8932939, 8945243, 8958489, 8961094,
     8965362, 8973398, 8974340, 8976003, 8992580, 9001337, 9005826, 9011978, 9020735,
     9029492, 9035644, 9038249, 9040133, 9042738, 9060978, 9069735, 9071619, 9074224,
     9082039, 9084644, 9092680, 9095285, 9097890, 9102379, 9106647, 9108531, 9140017,
     9146169, 9195169, 9199658, 9203205, 9214567, 9216230, 9227813, 9229476, 9232081,
     9234686, 9237512, 9240117, 9246995, 9254810, 9259299, 9263567, 9268056, 9274208,
     9282965, 9287454, 9291722, 9293606, 9296211, 9297874, 9299758, 9300479, 9302363,
     9304968, 9309241, 9323208, 9325092, 9327697, 9333849, 9336454, 9337396, 9340943,
     9346153, 9348758, 9351363, 9359399, 9362004, 9364609, 9369098, 9370761, 9378581,
     9384733, 9391606, 9393490, 9396095, 9402247, 9406736, 9408399, 9412888, 9419761,
     9421645, 9433007, 9453131, 9456678, 9457399, 9461888, 9465435, 9466377, 9478681,
     9481286, 9482949, 9485554, 9493590, 9494532, 9496195, 9498800, 9512772, 9517040,
     9518924, 9521529, 9526018, 9530286, 9532170, 9534775, 9536438, 9538322, 9540927,
     9545195, 9547079, 9549684, 9555836, 9558441, 9560325, 9561988, 9562930, 9564593,
     9566477, 9567198, 9569808, 9572413, 9575960, 9578565, 9581170, 9582112, 9587322,
     9589927, 9591811, 9594416, 9596079, 9600568, 9604115, 9609325, 9612872, 9615477,
     9617140, 9618082, 9622571, 9626839, 9628723, 9631328, 9632991, 9638206, 9641753,
     9646963, 9655720, 9657604, 9658325, 9660209, 9666361, 9670629, 9675118, 9683875,
     9686480, 9688364, 9700452, 9701394, 9710151, 9715361, 9718908, 9719850, 9723397,
     9724118, 9726002, 9728607, 9729549, 9732154, 9736422, 9747063, 9748005, 9749668,
     9752273, 9754878, 9757704, 9760309, 9761972, 9762914, 9764577, 9767187, 9769792,
     9774060, 9775002, 9779491, 9781154, 9783759, 9785643, 9787306, 9788248, 9789190,
     9794400, 9800552, 9803157, 9807646, 9809309, 9811914, 9813798, 9816403, 9818066,
     9820671, 9822555, 9824218, 9825160, 9826102, 9828707, 9829649, 9847889, 9856646,
     9861135, 9862798, 9871555, 9876044, 9884801, 9889290, 9890953, 9893558, 9895442,
     9911798, 9916287, 9939232, 9941837, 9946105, 9953199, 9955083, 9982080, 9986569,
     9992721, 10001478, 10010235, 10014724, 10041721, 10046210, 10050478, 10054967, 10065387,
     10076028, 10078633, 10086669, 10088332, 10089274, 10090937, 10091879, 10096152,
     10101362, 10110119, 10112003, 10114608, 10120760, 10123365, 10125028, 10129517,
     10138274, 10142763, 10147031, 10148915, 10151520, 10153183, 10155067, 10157672,
     10178517, 10180401, 10195310, 10208556, 10210219, 10212824, 10217313, 10219918,
     10240042, 10243589, 10244310, 10248799, 10254951, 10263708, 10268197, 10272465,
     10275070, 10276954, 10299683, 10303951, 10308440, 10317197, 10321686, 10327838,
     10329501, 10332106, 10340142, 10342747, 10345352, 10359324, 10363592, 10368081,
     10372349, 10374233, 10376838, 10381327, 10382990, 10387479, 10391747, 10393631,
     10396236, 10400504, 10402388, 10404993, 10409482, 10411145, 10413750, 10415634,
     10417297, 10418239, 10419902, 10425117, 10431990, 10433874, 10436479, 10442631,
     10445236, 10447120, 10459424, 10462029, 10463692, 10466297, 10473391, 10475275,
     10479543, 10481427, 10482148, 10484032, 10487363, 10493515, 10497062, 10502272,
     10505819, 10506761, 10511029, 10512913, 10515518, 10517181, 10521670, 10525938,
     10530427, 10534916, 10539184, 10541068, 10556703, 10560971, 10561913, 10566402,
     10570670, 10572554, 10574217, 10575159, 10584858, 10593615, 10596220, 10598825,
     10603314, 10606861, 10608524, 10609466, 10611129, 10612071, 10613734, 10618949,
     10621554, 10630311, 10632195, 10634800, 10636463, 10639068, 10640952, 10643557,
     10644499, 10645220, 10647104, 10649709, 10655861, 10658466, 10662955, 10664618,
     10667223, 10669107, 10671712, 10673375, 10675259, 10677864, 10679527, 10680469,
     10681411, 10688289, 10690894, 10696104, 10697988, 10698709, 10700593, 10704140,
     10704861, 10706745, 10709350, 10712897, 10726864, 10728748, 10730411, 10733016,
     10740110, 10743657, 10746262, 10788389, 10792657, 10795262, 10803298, 10810392,
     10828632, 10837389, 10841878, 10848030, 10856787, 10865544, 10888273, 10897030,
     10901519, 10919975, 10922580, 10925185, 10935826, 10937489, 10938431, 10940094,
     10942699, 10956671, 10965428, 10967312, 10980337, 10993583, 10995467, 11001619,
     11002340, 11004224, 11005887, 11006829, 11008492, 11026953, 11035710, 11039257,
     11046130, 11055108, 11056771, 11059376, 11072622, 11086594, 11090862, 11095351,
     11104108, 11110260, 11119017, 11123506, 11127774, 11150503, 11154992, 11159260,
     11161144, 11163749, 11176053, 11178658, 11186694, 11189299, 11191904, 11193567,
     11201603, 11204208, 11205150, 11205871, 11218901, 11220785, 11229542, 11232147,
     11247056, 11248940, 11257697, 11260302, 11263849, 11266454, 11269059, 11270943,
     11274274, 11280426, 11283973, 11289183, 11292730, 11297940, 11302429, 11308581,
     11310244, 11312849, 11315454, 11320885, 11323490, 11326095, 11330584, 11334852,
     11336736, 11337457, 11347882, 11348824, 11357581, 11361128, 11362070, 11368222,
     11372490, 11374374, 11376979, 11381247, 11385736, 11390225, 11398982, 11405860,
     11408465, 11412733, 11417222, 11421711, 11423374, 11425979, 11427863, 11430468,
     11440167, 11442772, 11444435, 11445377, 11449866, 11456018, 11457681, 11458623,
     11460286, 11462891, 11468322, 11476863, 11477805, 11483015, 11485620, 11487504,
     11491772, 11496261, 11500529, 11502413, 11511170, 11513775, 11515659, 11519927,
     11521811, 11522532, 11524416, 11526079, 11527021, 11527963, 11528684, 11530568,
     11533173, 11537446, 11542656, 11546203, 11547145, 11551413, 11553297, 11554018,
     11554960, 11555902, 11559449, 11562054, 11565601, 11574358, 11575300, 11576963,
     11579568, 11587604, 11590209, 11592814, 11598966, 11606786, 11611054, 11612938,
     11614601, 11615543, 11619811, 11621695, 11623358, 11624300, 11627847, 11630452,
     11636604, 11639209, 11641093, 11643698, 11647966, 11649850, 11652455, 11661212,
     11675184, 11683941, 11703339, 11712096, 11720853, 11752339, 11769132, 11773400,
     11784041, 11786646, 11789251, 11822621, 11828773, 11835646, 11837530, 11850776,
     11855044, 11856928, 11857649, 11859533, 11861196, 11877773, 11882262, 11903323,
     11905928, 11916569, 11919174, 11923442, 11937414, 11941903, 11946171, 11948055,
     11950660, 11956812, 11965569, 11970058, 11974326, 11976210, 11978815, 11983083,
     12005812, 12007696, 12016453, 12019058, 12026873, 12035851, 12037514, 12040119,
     12042724, 12050760, 12052423, 12053365, 12055028, 12055970, 12061185, 12067337,
     12074210, 12076094, 12084851, 12091003, 12095492, 12099760, 12104249, 12113006,
     12119158, 12121763, 12135735, 12140003, 12144492, 12148039, 12156796, 12159401,
     12167437, 12170042, 12172647, 12174310, 12181404, 12185893, 12192771, 12195376,
     12199644, 12204133, 12210285, 12212890, 12217379, 12219042, 12223531, 12227799,
     12229683, 12232288, 12238440, 12241045, 12245534, 12254291, 12259285, 12264716,
     12269926, 12272531, 12278683, 12283172, 12289324, 12290987, 12293592, 12304233,
     12306838, 12309443, 12316537, 12317479, 12319142, 12320084, 12324357, 12329567,
     12333114, 12338324, 12342813, 12348965, 12353233, 12355838, 12357722, 12366479,
     12370968, 12375236, 12377120, 12377841, 12379725, 12381388, 12383272, 12383993,
     12385877, 12397965, 12401512, 12402454, 12406722, 12408606, 12411211, 12414758,
     12420910, 12423515, 12426120, 12430609, 12436761, 12438424, 12439366, 12441029,
     12443634, 12445518, 12448123, 12452396, 12457606, 12458548, 12462095, 12466363,
     12468247, 12470852, 12472515, 12477004, 12481272, 12483156, 12485761, 12490250,
     12491913, 12494518, 12496402, 12499007, 12500670, 12503275, 12505159, 12507764,
     12516521, 12526004, 12526946, 12527888, 12532156, 12534761, 12536645, 12539250,
     12540192, 12540913, 12554159, 12556043, 12557706, 12560311, 12562916, 12567405,
     12568347, 12570952, 12573557, 12575220, 12576162, 12615684, 12619952, 12630593,
     12633198, 12645502, 12646444, 12648107, 12664684, 12684082, 12692839, 12701596,
     12706085, 12707748, 12709632, 12710353, 12712237, 12712958, 12724325, 12733082,
     12737571, 12749875, 12752480, 12754143, 12765726, 12767389, 12769994, 12774483,
     12778751, 12792723, 12803364, 12805969, 12820878, 12829635, 12831519, 12834124,
     12863005, 12876030, 12884066, 12886671, 12897312, 12899917, 12901580, 12904185,
     12909616, 12922646, 12926914, 12931403, 12934950, 12946312, 12950801, 12955069,
     12959558, 12963826, 12968315, 12969978, 12971862, 12972804, 12974467, 12982287,
     12986555, 12991044, 12999801, 13004290, 13016594, 13019199, 13020862, 13023467,
     13031503, 13036713, 13038597, 13041202, 13046196, 13054953, 13056837, 13059442,
     13065594, 13070083, 13074351, 13076235, 13083108, 13084992, 13087597, 13093749,
     13096354, 13100843, 13114594, 13116478, 13120025, 13125235, 13137539, 13140144,
     13148180, 13150785, 13153390, 13155053, 13165694, 13166636, 13168299, 13170904,
     13175177, 13176119, 13184876, 13188423, 13193633, 13198122, 13204274, 13208542,
     13213031, 13221788, 13226277, 13229824, 13230545, 13232429, 13233150, 13234092,
     13235034, 13236697, 13239307, 13244517, 13252332, 13253274, 13257763, 13263915,
     13267462, 13270067, 13272672, 13274335, 13284976, 13285918, 13287581, 13290186,
     13294675, 13298943, 13300827, 13303432, 13312915, 13313857, 13319067, 13321672,
     13323556, 13326161, 13327824, 13338465, 13341070, 13347222, 13349827, 13351711,
     13354316, 13355979, 13358584, 13363073, 13367562, 13373498, 13378708, 13382255,
     13383197, 13387465, 13389349, 13391954, 13395501, 13396222, 13401653, 13404258,
     13406863, 13417504, 13418225, 13420109, 13421772, 13424377, 13429808, 13432413,
     13433355, 13434076, 13437407, 13438349, 13441896, 13442838, 13447106, 13448990,
     13450653, 13451595, 13455142, 13457747, 13466504, 13470993, 13475261, 13477145,
     13479750, 13484018, 13485902, 13488507, 13492054, 13492996, 13494659, 13497264,
     13499148, 13502479, 13506747, 13508631, 13511236, 13515504, 13517388, 13519051,
     13519993, 13520935, 13524482, 13526145, 13530634, 13536786, 13538449, 13539391,
     13541054, 13543659, 13548148, 13549090, 13551695, 13554300, 13555963, 13556905,
     13558789, 13561394, 13563057, 13564941, 13565662, 13579634, 13590275, 13596427,
     13600695, 13603300, 13613941, 13616546, 13625303, 13627187, 13629792, 13684944,
     13686828, 13718314, 13730618, 13733223, 13746469, 13748132, 13750737, 13753342,
     13756168, 13758773, 13761378, 13777955, 13786712, 13792864, 13801621, 13806110,
     13810378, 13814867, 13819135, 13821019, 13823624, 13827171, 13833107, 13841864,
     13843748, 13846353, 13864809, 13867414, 13870019, 13878055, 13880660, 13883265,
     13887754, 13889417, 13892022, 13903389, 13912146, 13914751, 13931544, 13938417,
     13940301, 13949058, 13962088, 13963030, 13971787, 13975334, 13980544, 13985033,
     13997337, 13999942, 14001605, 14004210, 14012246, 14013188, 14014851, 14017456,
     14031428, 14040185, 14044674, 14050826, 14055094, 14056978, 14059583, 14063851,
     14065735, 14068340, 14077097, 14078981, 14081586, 14083249, 14085133, 14085854,
     14087738, 14089401, 14095337, 14099826, 14105978, 14108583, 14110467, 14113072,
     14114735, 14120887, 14123492, 14131528, 14134133, 14136738, 14141227, 14144774,
     14147379, 14149984, 14151647, 14193774, 14207020, 14211288, 14218382, 14224318,
     14225260, 14228807, 14234017, 14237564, 14238506, 14242053, 14244658, 14250810,
     14253415, 14255078, 14265719, 14266661, 14268324, 14270929, 14273534, 14278965,
     14280628, 14281570, 14283233, 14284175, 14306904, 14326302, 14327965, 14330570,
     14341211, 14343816, 14353299, 14354241, 14362056, 14363940, 14366545, 14368208,
     14372697, 14376244, 14385001, 14387606, 14390211, 14394700, 14398247, 14400852,
     14402515, 14403457, 14407946, 14409609, 14412214, 14414098, 14416703, 14434943,
     14447247, 14457888, 14460493, 14464761, 14473739, 14480612, 14482496, 14487490,
     14491037, 14491979, 14495526, 14496247, 14498131, 14499794, 14500736, 14504283,
     14505225, 14506888, 14511377, 14517529, 14519192, 14520134, 14521797, 14524402,
     14532438, 14533380, 14535043, 14537648, 14544742, 14545684, 14547347, 14548289,
     14564866, 14577170, 14579775, 14581438, 14584043, 14594684, 14597289, 14605325,
     14607930, 14609593, 14610535, 14612198, 14615529, 14616471, 14617413, 14620018,
     14620960, 14626170, 14628775, 14629717, 14630659, 14633264, 14634927, 14636811,
     14643684, 14648173, 14649115, 14651720, 14654325, 14655988, 14656930, 14661419,
     14664966, 14665687, 14666629, 14667571, 14669234, 14670176, 14671839, 14673723,
     14676328, 14678933, 14699057, 14711361, 14713966, 14727212, 14728875, 14731480,
     14738574, 14744726, 14746394, 14748999, 14753267, 14754209, 14755151, 14757756,
     14758698, 14760361, 14762245, 14764850, 14767455, 14768397, 14769118, 14773607,
     14775270, 14782364, 14785911, 14786853, 14788516, 14791121, 14793726, 14795610,
     14796552, 14799157, 14801762, 14803425, 14804367, 14818339, 14827096, 14846494,
     14848157, 14850762, 14858798, 14861403, 14864008, 14873707, 14874649, 14876312,
     14878701, 14879643, 14882248, 14883190, 14884132, 14886737, 14888400, 14890284,
     14891947, 14892889, 14895494, 14896436, 14899041, 14899983, 14901646, 14905193,
     14907798, 14910403, 14912287, 14914892, 14918439, 14919160, 14920102, 14921044,
     14922707, 14923649, 14928138, 14929801, 14932406, 14934290, 14935953, 14936895,
     14938558, 14940442, 14941163, 14950646, 14952530, 14955135, 14956077, 14961287,
     14965776, 14978080, 14980685, 14982348, 14984953, 14993931, 14995594, 14998199,
     15000804, 15002688, 15005293, 15006956, 15040326, 15044594, 15053572, 15057840,
     15079627, 15080569, 15085058, 15089326, 15091210, 15093815, 15099967, 15101630,
     15104235, 15112271, 15114876, 15117481, 15121970, 15125517, 15128122, 15129785,
     15130727, 15132390, 15137821, 15153456, 15174517, 15177122, 15187763, 15190368,
     15192031, 15200067, 15202672, 15203614, 15209550, 15214760, 15217365, 15218307,
     15219249, 15222796, 15231553, 15234158, 15235821, 15245520, 15247404, 15249067,
     15251672, 15258766, 15259708, 15264918, 15267523, 15269407, 15307045, 15311313,
     15313918, 15321954, 15324559, 15329048, 15338531, 15342799, 15344683, 15346346,
     15347288, 15348230, 15353440, 15362197, 15365744, 15366686, 15368349, 15370954,
     15375443, 15376385, 15378990, 15381595, 15383258, 15384200, 15388689, 15393899,
     15394841, 15396504, 15397446, 15399109, 15415686, 15420175, 15430595, 15441236,
     15443841, 15454482, 15457087, 15458750, 15461355, 15470838, 15471780, 15472722,
     15475327, 15476269, 15476990, 15480537, 15481479, 15485026, 15485968, 15492120,
     15498272, 15498993, 15500877, 15502540, 15505145, 15512239, 15513181, 15514123,
     15515786, 15518391, 15520996, 15522880, 15525485, 15527148, 15529032, 15531637,
     15545609, 15560518, 15564786, 15573764, 15575427, 15578032, 15591278, 15599819,
     15600761, 15601703, 15605250, 15606913, 15609518, 15610460, 15611402, 15613065,
     15614007, 15615670, 15617554, 15620159, 15624427, 15628916, 15629858, 15632463,
     15635068, 15636731, 15637673, 15642162, 15645709, 15646430, 15648314, 15649977,
     15650919, 15652582, 15658013, 15660618, 15662281, 15673648, 15682405, 15694709,
     15697314, 15705350, 15707955, 15710560, 15712223, 15720259, 15722864, 15723806,
     15724527, 15725469, 15728074, 15729742, 15734010, 15734952, 15736836, 15737557,
     15738499, 15739441, 15742988, 15745593, 15748198, 15749140, 15754350, 15756013,
     15765712, 15766654, 15767596, 15769259, 15771864, 15776353, 15777295, 15778958,
     15779900, 15782505, 15784168, 15785110, 15787715, 15789599, 15791262, 15792204,
     15793867, 15799082, 15802629, 15807839, 15827237, 15828900, 15831505, 15834110,
     15842146, 15844751, 15853508, 15855392, 15856113, 15857997, 15886878, 15891146,
     15904392, 15915033, 15927121, 15935878, 15940367, 15946519, 15950787, 15958823,
     15961428, 15964033, 15968522, 15974674, 15976337, 15977279, 15978942, 15981547,
     15986978, 15989583, 16021069, 16034315, 16038583, 16041188, 16049224, 16051829,
     16053492, 16054434, 16061312, 16064859, 16065801, 16070069, 16071953, 16074558,
     16078105, 16080710, 16084978, 16093014, 16093956, 16095619, 16098224, 16106260,
     16108865, 16111470, 16117622, 16120227, 16157865, 16168506, 16171111, 16184357,
     16189351, 16190293, 16191235, 16193840, 16198108, 16199992, 16202597, 16203539,
     16208749, 16214901, 16217506, 16221995, 16225542, 16228147, 16229810, 16230752,
     16232415, 16239509, 16240451, 16243056, 16243998, 16244719, 16245661, 16248266,
     16287788, 16292056, 16305302, 16307907, 16315943, 16317606, 16319274, 16322821,
     16323542, 16327089, 16328031, 16331578, 16334183, 16342940, 16347429, 16349092,
     16351697, 16354302, 16359733, 16362338, 16364943, 16369432, 16375584, 16376305,
     16378189, 16379852, 16382457, 16400918, 16411338, 16421979, 16424584, 16435225,
     16437830, 16439493, 16446587, 16451581, 16452523, 16453465, 16456070, 16457012,
     16460559, 16462222, 16465769, 16466711, 16469316, 16470979, 16472863, 16475468,
     16479015, 16481620, 16483283, 16484225, 16488714, 16492982, 16493924, 16494866,
     16496529, 16497471, 16499134, 16501739, 16507170, 16508833, 16509775, 16511438,
     16512380, 16514043, 16514985, 16524468, 16541261, 16545529, 16554507, 16556170,
     16558775, 16561380, 16569416, 16572021, 16573684, 16574626, 16581504, 16582446,
     16585051, 16585993, 16590261, 16592145, 16593808, 16594750, 16596413, 16598297,
     16600902, 16605170, 16613206, 16614148, 16615811, 16618416, 16622905, 16626452,
     16629057, 16630720, 16631662, 16633325, 16637814, 16640419, 16643024, 16644908,
     16654391, 16663148, 16675452, 16678057, 16686093, 16688698, 16691303, 16692966,
     16704549, 16708817, 16710701, 16711422, 16714032, 16715695, 16718300, 16719242,
     16720184, 16722789, 16723731, 16724452, 16726336, 16728941, 16735093, 16737698,
     16742187, 16745734, 16746455, 16747397, 16748339, 16750002, 16750944, 16752607,
     16759701, 16760643, 16763248, 16764190, 16764911, 16765853, 16768458, 16772947,
     16773889, 16775552, 16776494}

(* The code compares a brightness with whole numbers only (thresholdValue, the
   parsed density, 100), and the double it computes is within 1e-12 of the
   exact value: the comparison differs from the exact one only when the exact
   brightness is that whole number and the double is not.  The sign of
   (double - exact) in these cases: *)
BrightnessError(r, g, b) ==
    LET code == 65536 * r + 256 * g + b
    IN  IF code \in BrightnessRoundedUp THEN 1
        ELSE IF code \in BrightnessRoundedDown THEN -1
        ELSE 0

(* calculateBrightness(r, g, b) > v, for a whole number v *)
BrightnessAbove(r, g, b, v) ==
    LET exact == calculateBrightness(r, g, b)
    IN  exact > 1000 * v \/ (exact = 1000 * v /\ BrightnessError(r, g, b) > 0)

(* calculateBrightness(r, g, b) < v, for a whole number v *)
BrightnessBelow(r, g, b, v) ==
    LET exact == calculateBrightness(r, g, b)
    IN  exact < 1000 * v \/ (exact = 1000 * v /\ BrightnessError(r, g, b) < 0)

(* clamp(value), with the default limits 0 and 255 *)
clamp(value) == Min(255, Max(0, value))

HexDigits == <<"0", "1", "2", "3", "4", "5", "6", "7", "8", "9",
               "a", "b", "c", "d", "e", "f">>

HexDigitsUpper == <<"0", "1", "2", "3", "4", "5", "6", "7", "8", "9",
                    "A", "B", "C", "D", "E", "F">>

IsHexDigit(d) == \E k \in 1..16 : HexDigits[k] = d \/ HexDigitsUpper[k] = d

HexValue(d) == (CHOOSE k \in 1..16 : HexDigits[k] = d \/ HexDigitsUpper[k] = d) - 1

(* A hex colour string is the sequence of its characters, "#" included. *)
(* hex.replace('#', ''): the first "#" removed *)
RemoveFirstHash(hex) ==
    IF \E k \in 1..Len(hex) : hex[k] = "#"
    THEN LET k == CHOOSE j \in 1..Len(hex) :
                      hex[j] = "#" /\ \A m \in 1..(j - 1) : hex[m] # "#"
         IN  SubSeq(hex, 1, k - 1) \o SubSeq(hex, k + 1, Len(hex))
    ELSE hex

(* parseInt(cleanHex.slice(from, from + 2), 16), from 0-based: the slice is
   cut at the end of the string, parseInt reads the hex digits up to the first
   other character and gives NaN when there is none; "0x" is read as a prefix
   with nothing after it.  NaN is the -2 of the mask queries below. *)
ParseHexPair(cleanHex, from) ==
    LET sub == SubSeq(cleanHex, from + 1, Min(from + 2, Len(cleanHex)))
    IN  IF Len(sub) = 0 \/ ~IsHexDigit(sub[1]) THEN -2
        ELSE IF Len(sub) = 1 THEN HexValue(sub[1])
        ELSE IF sub[1] = "0" /\ sub[2] \in {"x", "X"} THEN -2
        ELSE IF ~IsHexDigit(sub[2]) THEN HexValue(sub[1])
        ELSE 16 * HexValue(sub[1]) + HexValue(sub[2])

hexToRgb(hex) ==
    LET cleanHex == RemoveFirstHash(hex)
    IN  [r |-> ParseHexPair(cleanHex, 0),
         g |-> ParseHexPair(cleanHex, 2),
         b |-> ParseHexPair(cleanHex, 4)]

(* n.toString(16) for a whole n in 0..255: one or two lowercase digits *)
ToString16(n) ==
    IF n < 16 THEN <<HexDigits[n + 1]>>
    ELSE <<HexDigits[(n \div 16) + 1], HexDigits[(n % 16) + 1]>>

(* toHex without the leading zero *)
toHex_unpadded(n) == ToString16(clamp(n))

(* toHex of rgbToHex, for a whole n: Math.round leaves the clamped n as it is *)
toHex(n) ==
    LET hex == ToString16(clamp(n))
    IN  IF Len(hex) = 1 THEN <<"0">> \o hex ELSE hex

rgbToHex(r, g, b) == <<"#">> \o toHex(r) \o toHex(g) \o toHex(b)

(* Math.floor(Math.random() * 200) per channel: the draws the model keeps *)
RandomChannels == {0, 199}

randomFromPalette(palette, k) ==
    IF Len(palette) = 0 THEN [r |-> 0, g |-> 0, b |-> 0]
    ELSE hexToRgb(palette[k])

----------------------------------------------------------------------------
(* Pixel buffers *)

Px(r, g, b, a) == [r |-> r, g |-> g, b |-> b, a |-> a]

BLACK == Px(0, 0, 0, 255)
GRAY == Px(110, 110, 110, 255)
RED == Px(200, 30, 30, 255)
WHITE == Px(255, 255, 255, 255)
CLEAR == Px(0, 0, 0, 0)

PixelCount(w, h) == w * h

(* data.length of a buffer *)
DataLength(data) == 4 * Cardinality(DOMAIN data)

ImgBlack(w, h) == [p \in 0..(PixelCount(w, h) - 1) |-> BLACK]

ImgWhite(w, h) == [p \in 0..(PixelCount(w, h) - 1) |-> WHITE]

(* a fully transparent buffer: r = g = b = a = 0 *)
ImgClear(w, h) == [p \in 0..(PixelCount(w, h) - 1) |-> CLEAR]

(* a black block of 3 x 3 pixels in the top left corner of a white buffer *)
ImgDarkBlock(w, h) ==
    [p \in 0..(PixelCount(w, h) - 1) |->
        IF p % w < 3 /\ p \div w < 3 THEN BLACK ELSE WHITE]

(* gray (brightness 110) in the three left columns, a white hole, a red and a
   transparent pixel, black elsewhere *)
ImgMixed(w, h) ==
    [p \in 0..(PixelCount(w, h) - 1) |->
        LET x == p % w
            y == p \div w
        IN  IF x = 3 /\ y = 1 THEN WHITE
            ELSE IF x = 4 /\ y = 3 THEN RED
            ELSE IF x = w - 1 /\ y = h - 1 THEN CLEAR
            ELSE IF x < 3 THEN GRAY
            ELSE BLACK]

----------------------------------------------------------------------------
(* ImageProcessor: mask and colour queries *)

(* Coordinates are whole numbers, as placeWords passes them: Math.floor
   leaves them as they are. *)

(* brightness > density in place of brightness < density *)
checkMask_brighter(data, x, y, width, density) ==
    LET idx == (y * width + x) * 4
    IN  IF idx < 0 \/ idx >= DataLength(data) THEN FALSE
        ELSE IF data[idx \div 4].a < MIN_ALPHA THEN FALSE
        ELSE LET px == data[idx \div 4]
             IN  BrightnessAbove(px.r, px.g, px.b, density)

(* the alpha test left out *)
checkMask_anyAlpha(data, x, y, width, density) ==
    LET idx == (y * width + x) * 4
    IN  IF idx < 0 \/ idx >= DataLength(data) THEN FALSE
        ELSE LET px == data[idx \div 4]
             IN  BrightnessBelow(px.r, px.g, px.b, density)

checkMask(data, x, y, width, density) ==
    LET idx == (y * width + x) * 4
    IN  IF idx < 0 \/ idx >= DataLength(data) THEN FALSE
        ELSE IF data[idx \div 4].a < MIN_ALPHA THEN FALSE
        ELSE LET px == data[idx \div 4]
             IN  BrightnessBelow(px.r, px.g, px.b, density)

(* a read outside a typed array gives undefined, and arithmetic on it NaN *)
undefined == -1
NaN == -2

getPixelColor(data, x, y, width) ==
    LET idx == (y * width + x) * 4
    IN  IF idx >= 0 /\ idx < DataLength(data)
        THEN LET px == data[idx \div 4]
             IN  [r |-> px.r, g |-> px.g, b |-> px.b,
                  brightness |-> calculateBrightness(px.r, px.g, px.b)]
        ELSE [r |-> undefined, g |-> undefined, b |-> undefined, brightness |-> NaN]

----------------------------------------------------------------------------
(* ImageProcessor: the filters.  An ImageData is a record of width, height
   and data; the filters of the code change data in place, here they return
   the changed data. *)

ImageData(w, h, data) == [width |-> w, height |-> h, data |-> data]

NoImageData == ImageData(0, 0, <<>>)

(* Math.round(255 * (thresholdPercent / 100)) for a whole percentage: the
   half-way values 25.5, 76.5, ... are exact doubles and round upwards *)
ThresholdValue(thresholdPercent) == (51 * thresholdPercent + 10) \div 20

(* brightness >= thresholdValue in place of > *)
applyThreshold_atOrAbove(data, thresholdPercent) ==
    LET thresholdValue == ThresholdValue(thresholdPercent)
    IN  [q \in DOMAIN data |->
            IF ~BrightnessBelow(data[q].r, data[q].g, data[q].b, thresholdValue)
            THEN [r |-> 255, g |-> 255, b |-> 255, a |-> data[q].a]
            ELSE data[q]]

(* a pass that lightens every pixel above the cutoff by half its distance to
   white, in place of forcing it to white *)
applyThreshold_lighten(data, thresholdPercent) ==
    LET thresholdValue == ThresholdValue(thresholdPercent)
    IN  [q \in DOMAIN data |->
            IF BrightnessAbove(data[q].r, data[q].g, data[q].b, thresholdValue)
            THEN [r |-> (data[q].r + 256) \div 2, g |-> (data[q].g + 256) \div 2,
                  b |-> (data[q].b + 256) \div 2, a |-> data[q].a]
            ELSE data[q]]

applyThreshold(data, thresholdPercent) ==
    LET thresholdValue == ThresholdValue(thresholdPercent)
    IN  [q \in DOMAIN data |->
            IF BrightnessAbove(data[q].r, data[q].g, data[q].b, thresholdValue)
            THEN [r |-> 255, g |-> 255, b |-> 255, a |-> data[q].a]
            ELSE data[q]]

(* brightness < thresholdValue in place of <= *)
applyNegative_below(data, thresholdPercent, negativeColor) ==
    LET thresholdValue == ThresholdValue(thresholdPercent)
        neg == hexToRgb(negativeColor)
    IN  [q \in DOMAIN data |->
            IF BrightnessBelow(data[q].r, data[q].g, data[q].b, thresholdValue)
            THEN [r |-> clamp(255 - data[q].r + neg.r),
                  g |-> clamp(255 - data[q].g + neg.g),
                  b |-> clamp(255 - data[q].b + neg.b),
                  a |-> data[q].a]
            ELSE data[q]]

(* the brightness test left out: every pixel is inverted *)
applyNegative_everyPixel(data, thresholdPercent, negativeColor) ==
    LET neg == hexToRgb(negativeColor)
    IN  [q \in DOMAIN data |->
            [r |-> clamp(255 - data[q].r + neg.r),
             g |-> clamp(255 - data[q].g + neg.g),
             b |-> clamp(255 - data[q].b + neg.b),
             a |-> data[q].a]]

applyNegative(data, thresholdPercent, negativeColor) ==
    LET thresholdValue == ThresholdValue(thresholdPercent)
        neg == hexToRgb(negativeColor)
    IN  [q \in DOMAIN data |->
            IF ~BrightnessAbove(data[q].r, data[q].g, data[q].b, thresholdValue)
            THEN [r |-> clamp(255 - data[q].r + neg.r),
                  g |-> clamp(255 - data[q].g + neg.g),
                  b |-> clamp(255 - data[q].b + neg.b),
                  a |-> data[q].a]
            ELSE data[q]]

sobelX == <<-1, 0, 1, -2, 0, 2, -1, 0, 1>>
sobelY == <<-1, -2, -1, 0, 0, 0, 1, 2, 1>>

(* the sum of the kernel loop for one channel, from kernelIdx on *)
RECURSIVE KernelSum(_, _, _, _, _, _, _)
KernelSum(copy, width, x, y, ch, kernel, kernelIdx) ==
    IF kernelIdx > 8 THEN 0
    ELSE LET ky == (kernelIdx \div 3) - 1
             kx == (kernelIdx % 3) - 1
         IN  copy[(y + ky) * width + (x + kx)][ch] * kernel[kernelIdx + 1]
                + KernelSum(copy, width, x, y, ch, kernel, kernelIdx + 1)

(* by how much Math.max(0, c - Math.sqrt(gx*gx + gy*gy) * strength / 5),
   stored in the Uint8ClampedArray (rounded to the nearest whole number),
   lies below c.  With mag = sqrt(gx*gx + gy*gy) * strength / 5, the stored
   value is c - d exactly when d - 1/2 < mag < d + 1/2, that is
   25 (2d - 1)^2 < 4 (gx*gx + gy*gy) strength^2 < 25 (2d + 1)^2; for whole
   strengths the middle is even and both sides odd, so there is no tie, and
   it is at least 1 away from them, far more than the rounding of a double *)
Darkening(c, gx, gy, strength) ==
    LET mag2 == 4 * (gx * gx + gy * gy) * strength * strength
        passed == {d \in 0..c : 25 * (2 * d + 1) * (2 * d + 1) < mag2}
    IN  Min(c, Cardinality(passed))

(* the magnitude is added: edges are lightened *)
EdgeChannel_lighten(copy, width, x, y, ch, strength) ==
    LET c == copy[y * width + x][ch]
        gx == KernelSum(copy, width, x, y, ch, sobelX, 0)
        gy == KernelSum(copy, width, x, y, ch, sobelY, 0)
    IN  Min(255, c + Darkening(255, gx, gy, strength))

(* data[idx] of an interior pixel after the blend *)
EdgeChannel(copy, width, x, y, ch, strength) ==
    LET c == copy[y * width + x][ch]
        gx == KernelSum(copy, width, x, y, ch, sobelX, 0)
        gy == KernelSum(copy, width, x, y, ch, sobelY, 0)
    IN  c - Darkening(c, gx, gy, strength)

Interior(x, y, width, height) ==
    x >= 1 /\ x < width - 1 /\ y >= 1 /\ y < height - 1

(* Math.max(0, copy - mag) without the return at strength <= 0: a negative
   strength makes mag negative, and the channel goes up by the magnitude *)
applyEdgeDetection_noGuard(img, strength) ==
    [q \in DOMAIN img.data |->
        LET x == q % img.width
            y == q \div img.width
        IN  IF Interior(x, y, img.width, img.height)
            THEN IF strength < 0
                 THEN [r |-> EdgeChannel_lighten(img.data, img.width, x, y, "r", strength),
                       g |-> EdgeChannel_lighten(img.data, img.width, x, y, "g", strength),
                       b |-> EdgeChannel_lighten(img.data, img.width, x, y, "b", strength),
                       a |-> img.data[q].a]
                 ELSE [r |-> EdgeChannel(img.data, img.width, x, y, "r", strength),
                       g |-> EdgeChannel(img.data, img.width, x, y, "g", strength),
                       b |-> EdgeChannel(img.data, img.width, x, y, "b", strength),
                       a |-> img.data[q].a]
            ELSE img.data[q]]

applyEdgeDetection(img, strength) ==
    IF strength <= 0 THEN img.data
    ELSE [q \in DOMAIN img.data |->
            LET x == q % img.width
                y == q \div img.width
            IN  IF Interior(x, y, img.width, img.height)
                THEN [r |-> EdgeChannel(img.data, img.width, x, y, "r", strength),
                      g |-> EdgeChannel(img.data, img.width, x, y, "g", strength),
                      b |-> EdgeChannel(img.data, img.width, x, y, "b", strength),
                      a |-> img.data[q].a]
                ELSE img.data[q]]

(* The loops of applyEdgeDetection, one pixel at a time. *)

(* the kernel loop reads the buffer as it is being written *)
KernelBuffer_live(copy, data) == data

(* the buffer the kernel loop reads: copy, the Uint8ClampedArray made from
   data before the loops *)
KernelBuffer(copy, data) == copy

(* the three channels written for the interior pixel q; alpha is not written *)
EdgePixel(kernelBuf, copy, data, width, q, strength) ==
    LET x == q % width
        y == q \div width
        Channel(ch) ==
            LET c == copy[q][ch]
                gx == KernelSum(kernelBuf, width, x, y, ch, sobelX, 0)
                gy == KernelSum(kernelBuf, width, x, y, ch, sobelY, 0)
            IN  c - Darkening(c, gx, gy, strength)
    IN  [r |-> Channel("r"), g |-> Channel("g"), b |-> Channel("b"), a |-> data[q].a]

(* the body of the x loop for the pixels order[k], order[k + 1], ... in turn *)
RECURSIVE EdgeLoop(_, _, _, _, _, _)
EdgeLoop(copy, data, width, strength, order, k) ==
    IF k > Len(order) THEN data
    ELSE LET q == order[k]
             px == EdgePixel(KernelBuffer(copy, data), copy, data, width, q, strength)
         IN  EdgeLoop(copy, [data EXCEPT ![q] = px], width, strength, order, k + 1)

(* the interior pixels as for (y ...) for (x ...) visits them *)
RowMajor(width, height) ==
    [k \in 1..((width - 2) * (height - 2)) |->
        (1 + ((k - 1) \div (width - 2))) * width + 1 + ((k - 1) % (width - 2))]

(* the same pixels, last to first *)
RowMajorReversed(width, height) ==
    LET n == (width - 2) * (height - 2)
    IN  [k \in 1..n |-> RowMajor(width, height)[n + 1 - k]]

(* the same pixels, column by column *)
ColumnMajor(width, height) ==
    [k \in 1..((width - 2) * (height - 2)) |->
        (1 + ((k - 1) % (height - 2))) * width + 1 + ((k - 1) \div (height - 2))]

VisitOrder(name, width, height) ==
    CASE name = "rows" -> RowMajor(width, height)
      [] name = "rowsReversed" -> RowMajorReversed(width, height)
      [] name = "columns" -> ColumnMajor(width, height)

(* applyEdgeDetection as it runs, the interior visited in the order given *)
applyEdgeDetectionLoop(img, strength, order) ==
    IF strength <= 0 THEN img.data
    ELSE EdgeLoop(img.data, img.data, img.width, strength, order, 1)

(* the defaults of the options of processImage *)
DefaultProcOptions ==
    [threshold |-> 44, edges |-> 0, negative |-> FALSE,
     negativeColor |-> <<"#", "5", "5", "5", "5", "5", "5">>]

(* no filter call and no query made *)
InitFilterIdle ==
    /\ buf = NoImageData
    /\ bufPrev = NoImageData
    /\ filterLog = <<>>
    /\ procOptions = DefaultProcOptions
    /\ ipc = "idle"
    /\ maskQuery = <<>>

----------------------------------------------------------------------------
(* WordPlacer *)

DEFAULT_SIZE_TIERS ==
    << [scale10 |-> 40, attempts |-> 200],
       [scale10 |-> 25, attempts |-> 1000],
       [scale10 |-> 15, attempts |-> 5000],
       [scale10 |-> 10, attempts |-> 15000],
       [scale10 |-> 8, attempts |-> 40000] >>

(* Math.floor(cx - boxW / 2) *)
BoxStart(c, box) == (2 * c - box) \div 2

(* the scan started one cell late *)
checkCollision_lateStart(g, cx, cy, boxW, boxH, width, height) ==
    LET startX == BoxStart(cx, boxW)
        startY == BoxStart(cy, boxH)
        endX == startX + boxW
        endY == startY + boxH
    IN  IF startX < 0 \/ startY < 0 \/ endX >= width \/ endY >= height THEN TRUE
        ELSE \E y \in (startY + 1)..(endY - 1), x \in (startX + 1)..(endX - 1) :
                /\ (y - startY - 1) % 2 = 0
                /\ (x - startX - 1) % 2 = 0
                /\ g[y * width + x] = 1

(* endX > width and endY > height in place of >=: a box may end on the edge *)
checkCollision_edgeAllowed(g, cx, cy, boxW, boxH, width, height) ==
    LET startX == BoxStart(cx, boxW)
        startY == BoxStart(cy, boxH)
        endX == startX + boxW
        endY == startY + boxH
    IN  IF startX < 0 \/ startY < 0 \/ endX > width \/ endY > height THEN TRUE
        ELSE \E y \in startY..(endY - 1), x \in startX..(endX - 1) :
                /\ (y - startY) % 2 = 0
                /\ (x - startX) % 2 = 0
                /\ g[y * width + x] = 1

checkCollision(g, cx, cy, boxW, boxH, width, height) ==
    LET startX == BoxStart(cx, boxW)
        startY == BoxStart(cy, boxH)
        endX == startX + boxW
        endY == startY + boxH
    IN  IF startX < 0 \/ startY < 0 \/ endX >= width \/ endY >= height THEN TRUE
        ELSE \E y \in startY..(endY - 1), x \in startX..(endX - 1) :
                /\ (y - startY) % 2 = 0
                /\ (x - startX) % 2 = 0
                /\ g[y * width + x] = 1

markGrid_unpadded(g, cx, cy, boxW, boxH, width, height, padding) ==
    LET startX == BoxStart(cx, boxW)
        startY == BoxStart(cy, boxH)
        endX == startX + boxW
        endY == startY + boxH
    IN  [p \in DOMAIN g |->
            IF /\ startY <= p \div width /\ p \div width < endY
               /\ startX <= p % width /\ p % width < endX
            THEN 1 ELSE g[p]]

(* the tests x < 0 || x >= width left out: a column outside the canvas lands
   in the neighbouring row *)
markGrid_wrapping(g, cx, cy, boxW, boxH, width, height, padding) ==
    LET startX == BoxStart(cx, boxW)
        startY == BoxStart(cy, boxH)
        endX == startX + boxW
        endY == startY + boxH
    IN  [p \in DOMAIN g |->
            IF \E y \in (startY - padding)..(endY + padding - 1),
                  x \in (startX - padding)..(endX + padding - 1) :
                    y >= 0 /\ y < height /\ y * width + x = p
            THEN 1 ELSE g[p]]

markGrid(g, cx, cy, boxW, boxH, width, height, padding) ==
    LET startX == BoxStart(cx, boxW)
        startY == BoxStart(cy, boxH)
        endX == startX + boxW
        endY == startY + boxH
    IN  [p \in DOMAIN g |->
            LET x == p % width
                y == p \div width
            IN  IF /\ startY - padding <= y /\ y < endY + padding
                   /\ startX - padding <= x /\ x < endX + padding
                   /\ y >= 0 /\ y < height /\ x >= 0 /\ x < width
                THEN 1 ELSE g[p]]

checkPlacementBounds(data, cx, cy, boxW, boxH, width, density) ==
    LET startX == BoxStart(cx, boxW)
        startY == BoxStart(cy, boxH)
        endX == startX + boxW
        endY == startY + boxH
        checkPoints == << <<startX, startY>>, <<endX, startY>>, <<startX, endY>>,
                          <<endX, endY>>, <<cx, cy>> >>
    IN  \A k \in 1..Len(checkPoints) :
            checkMask(data, checkPoints[k][1], checkPoints[k][2], width, density)

(* the random draws of a colour mode: Math.random() is called three times by
   randomColor, once by randomFromPalette on a non-empty palette, and not
   at all in the other modes *)
ColorDraws(colorMode, palette) ==
    CASE colorMode = "random" ->
            [r : RandomChannels, g : RandomChannels, b : RandomChannels, k : {1}]
      [] colorMode = "palette" ->
            [r : {0}, g : {0}, b : {0}, k : 1..Max(1, Len(palette))]
      [] OTHER -> [r : {0}, g : {0}, b : {0}, k : {1}]

(* the branches of source and single exchanged *)
getWordColor_swapped(colorMode, pixelColor, singleColor, palette, rnd) ==
    CASE colorMode = "source" -> hexToRgb(singleColor)
      [] colorMode = "random" -> [r |-> rnd.r, g |-> rnd.g, b |-> rnd.b]
      [] colorMode = "palette" -> randomFromPalette(palette, rnd.k)
      [] OTHER -> [r |-> pixelColor.r, g |-> pixelColor.g, b |-> pixelColor.b]

(* rnd: the random draws (channels, palette index) *)
getWordColor(colorMode, pixelColor, singleColor, palette, rnd) ==
    CASE colorMode = "source" ->
            [r |-> pixelColor.r, g |-> pixelColor.g, b |-> pixelColor.b]
      [] colorMode = "random" -> [r |-> rnd.r, g |-> rnd.g, b |-> rnd.b]
      [] colorMode = "palette" -> randomFromPalette(palette, rnd.k)
      [] OTHER -> hexToRgb(singleColor)

(* Math.floor(fontSize * tier.scale), capped at Math.floor(width * 0.8) *)
FontSizePx(fontSize, scale10, width) ==
    LET fontSizePx == (fontSize * scale10) \div 10
    IN  IF 10 * fontSizePx > 8 * width THEN (8 * width) \div 10 ELSE fontSizePx

(* metricsCtx.measureText(word).width in half pixels: the browser's text
   metrics, taken as an advance of half the font size per character *)
MeasureTextWidth2(word, fontSizePx) == Len(word) * fontSizePx

(* Math.ceil(measure.width) *)
BoxW(word, fontSizePx) == CeilDiv(MeasureTextWidth2(word, fontSizePx), 2)

(* Math.ceil(fontSizePx * 0.8) *)
BoxH(fontSizePx) == CeilDiv(8 * fontSizePx, 10)

IsGiantTier(tier) == tier.scale10 >= GIANT_SCALE10

TierBudget_uncapped(tier) == tier.attempts

(* Math.min(tier.attempts, 50000) *)
TierBudget(tier) == Min(tier.attempts, MAX_ATTEMPTS)

(* the giant-tier test of one attempt: true when the attempt goes on *)
GiantTierOk_unrestricted(tier, data, rx, ry, width) == TRUE

GiantTierOk(tier, data, rx, ry, width) ==
    IsGiantTier(tier) =>
        LET pixelColor == getPixelColor(data, rx, ry, width)
        IN  ~BrightnessAbove(pixelColor.r, pixelColor.g, pixelColor.b,
                             GIANT_MAX_BRIGHTNESS)

(* hero words in every tier *)
WordPool_everyTier(tier, words, heroWords) ==
    IF Len(heroWords) > 0 THEN heroWords ELSE words

(* the list a word is drawn from *)
WordPool(tier, words, heroWords) ==
    IF IsGiantTier(tier) /\ Len(heroWords) > 0 THEN heroWords ELSE words

(* colorMode === 'source' ? 1.0 : 1 - brightness / 255, in hundredths
   (alpha.toFixed(2)) *)
Alpha100(colorMode, brightness) ==
    IF colorMode = "source" THEN 100
    ELSE (2 * 100 * (255000 - brightness) + 255000) \div (2 * 255000)

LogAttempt(log, scale10) ==
    IF Len(log) > 0 /\ log[Len(log)] = scale10 THEN log ELSE Append(log, scale10)

(* the words drawn so far: each box with the number of times it was drawn *)
AddCommit(drawn, box) ==
    IF box \in DOMAIN drawn THEN [drawn EXCEPT ![box] = @ + 1]
    ELSE [b \in DOMAIN drawn \cup {box} |-> IF b = box THEN 1 ELSE drawn[b]]

(* a commit that whitens the pixel it sampled, so that it is not sampled again *)
imageDataAfterCommit_whitened(data, rx, ry, width) ==
    [data EXCEPT ![ry * width + rx] = WHITE]

(* The buffer after a commit.  The commit block draws on the canvas
   (fillText) and marks the grid (markGrid); checkMask, getPixelColor and
   checkPlacementBounds only read data[idx] .. data[idx + 3]. *)
imageDataAfterCommit(data, rx, ry, width) == data

(* placeWords, up to the tier loop: a fresh grid, the canvas filled white *)
PlaceWordsStart ==
    /\ pc = "idle"
    /\ grid' = [p \in 0..(options.width * options.height - 1) |-> 0]
    /\ commits' = <<>>
    /\ lastCommit' = <<>>
    /\ attemptLog' = <<>>
    /\ attemptsDone' = [k \in 1..Len(sizeTiers) |-> 0]
    /\ tierIdx' = 1
    /\ i' = 0
    /\ pc' = "placing"
    /\ UNCHANGED <<sizeTiers, options, imageData>>
    /\ UNCHANGED notPlaceVars

(* one iteration of the attempt loop *)
Attempt ==
    /\ pc = "placing"
    /\ tierIdx <= Len(sizeTiers)
    /\ i < TierBudget(sizeTiers[tierIdx])
    /\ \E rx \in 0..(options.width - 1), ry \in 0..(options.height - 1) :
        LET tier == sizeTiers[tierIdx]
            width == options.width
            height == options.height
            fontSizePx == FontSizePx(options.fontSize, tier.scale10, width)
            pool == WordPool(tier, options.words, options.heroWords)
        IN  /\ i' = i + 1
            /\ attemptsDone' = [attemptsDone EXCEPT ![tierIdx] = @ + 1]
            /\ attemptLog' = LogAttempt(attemptLog, tier.scale10)
            /\ UNCHANGED <<sizeTiers, options, pc, tierIdx>>
            /\ UNCHANGED notPlaceVars
            /\ IF /\ checkMask(imageData, rx, ry, width, options.density)
                  /\ GiantTierOk(tier, imageData, rx, ry, width)
               THEN \E w \in 1..Len(pool) :
                    LET word == pool[w]
                        boxW == BoxW(word, fontSizePx)
                        boxH == BoxH(fontSizePx)
                    IN  IF /\ checkPlacementBounds(imageData, rx, ry, boxW, boxH,
                                                   width, options.density)
                           /\ ~checkCollision(grid, rx, ry, boxW, boxH, width, height)
                        THEN \E rnd \in ColorDraws(options.colorMode, options.customPalette) :
                             LET pixelColor == getPixelColor(imageData, rx, ry, width)
                                 wordColor ==
                                     getWordColor(options.colorMode, pixelColor,
                                                  options.color, options.customPalette,
                                                  rnd)
                             IN  /\ lastCommit' =
                                        << [scale10 |-> tier.scale10, cx |-> rx, cy |-> ry,
                                            boxW |-> boxW, boxH |-> boxH, word |-> word,
                                            color |-> wordColor,
                                            alpha100 |-> Alpha100(options.colorMode,
                                                                  pixelColor.brightness),
                                            pixel |-> pixelColor] >>
                                 /\ commits' = AddCommit(commits,
                                        [x |-> BoxStart(rx, boxW), y |-> BoxStart(ry, boxH),
                                         w |-> boxW, h |-> boxH])
                                 /\ grid' = markGrid(grid, rx, ry, boxW, boxH, width,
                                                     height, GRID_PADDING)
                                 /\ imageData' = imageDataAfterCommit(imageData, rx, ry,
                                                                      width)
                        ELSE UNCHANGED <<grid, commits, lastCommit, imageData>>
               ELSE UNCHANGED <<grid, commits, lastCommit, imageData>>

(* the attempt loop of a tier is over: the next tier, or the return *)
TierEnd ==
    /\ pc = "placing"
    /\ tierIdx <= Len(sizeTiers)
    /\ ~(i < TierBudget(sizeTiers[tierIdx]))
    /\ tierIdx' = tierIdx + 1
    /\ i' = 0
    /\ UNCHANGED <<sizeTiers, options, imageData, pc, grid, commits, lastCommit,
                   attemptLog, attemptsDone>>
    /\ UNCHANGED notPlaceVars

PlaceWordsReturn ==
    /\ pc = "placing"
    /\ tierIdx > Len(sizeTiers)
    /\ pc' = "done"
    /\ UNCHANGED <<sizeTiers, options, imageData, grid, tierIdx, i, commits,
                   lastCommit, attemptLog, attemptsDone>>
    /\ UNCHANGED notPlaceVars

setSizeTiers(tiers) ==
    /\ pc \in {"idle", "done"}
    /\ sizeTiers' = tiers
    /\ UNCHANGED <<options, imageData, pc, grid, tierIdx, i, commits, lastCommit,
                   attemptLog, attemptsDone>>
    /\ UNCHANGED notPlaceVars

----------------------------------------------------------------------------
(* The placement runs checked: the inputs of placeWords *)

Tier(scale10, attempts) == [scale10 |-> scale10, attempts |-> attempts]

(* schedules installed with setSizeTiers *)
TierSchedules ==
    { << Tier(40, TierAttempts), Tier(10, TierAttempts) >>,
      << Tier(10, TierAttempts), Tier(40, TierAttempts) >>,
      << Tier(30, TierAttempts), Tier(25, TierAttempts) >> }

HEX_BLACK == <<"#", "0", "0", "0", "0", "0", "0">>
HEX_TEAL == <<"#", "1", "2", "a", "b", "f", "f">>
HEX_RED == <<"#", "f", "f", "0", "0", "0", "0">>
HEX_GREEN == <<"#", "0", "0", "f", "f", "0", "0">>

Images(w, h) == {ImgBlack(w, h), ImgMixed(w, h), ImgWhite(w, h), ImgClear(w, h)}

Options(words, heroWords, fontSize, colorMode) ==
    [width |-> CanvasW, height |-> CanvasH, words |-> words, heroWords |-> heroWords,
     fontSize |-> fontSize, density |-> 120, colorMode |-> colorMode,
     color |-> HEX_TEAL, customPalette |-> <<HEX_RED, HEX_GREEN>>]

PlacementOptions ==
    { Options(<<"Hi", "Love">>, <<>>, 1, "single"),
      Options(<<"Hi">>, <<"Me">>, 1, "source"),
      Options(<<"Hi">>, <<>>, 2, "random"),
      Options(<<"Hi">>, <<"Me">>, 1, "palette") }

(* StateManager: the part of the application state the word list, the
   presets and the image live in *)

(* null, the value of state.image before an image is loaded *)
null == "null"

defaultState ==
    [ words |-> <<"Love", "Hope", "Dream", "Life", "Art", "Code", "Future",
                  "Create", "Vision", "Soul">>,
      heroWords |-> <<>>,
      image |-> null,
      density |-> 120 ]

(* Event names (EventBus.js, Events) *)
STATE_CHANGED == "state:changed"
STATE_RESET == "state:reset"

BusEvents == {STATE_CHANGED, STATE_RESET}

(* a deleted entry of a Set's list; forEach skips it *)
Empty == [fn |-> "empty", reg |-> 0]

(* new EventBus(): this.listeners = new Map() *)
InitEventBus ==
    /\ listeners = [e \in BusEvents |-> 0]
    /\ setData = <<>>
    /\ emitStack = <<>>
    /\ subs = <<>>
    /\ emitLog = <<>>
    /\ invoked = <<>>
    /\ removals = 0

(* debounce(func, wait): let timeoutId = null, and no timer set *)
InitDebounce ==
    /\ now = 0
    /\ timeoutId = 0
    /\ timerTasks = {}
    /\ callLog = <<>>
    /\ funcLog = <<>>

(* new App() in a document that is still loading *)
InitApp ==
    /\ readyState = "loading"
    /\ initialized = FALSE
    /\ domListeners = 0
    /\ dispatching = 0
    /\ components = 0
    /\ componentsMade = 0
    /\ bootstrapRuns = 0
    /\ appCalls = [init |-> 0, destroy |-> 0]

(* new StateManager(): this._subscribers = new Set(), and no setState yet *)
InitSubscribers ==
    /\ subscribers = 0
    /\ stateCall = <<>>
    /\ notified = <<>>

InitPage ==
    /\ InitEventBus
    /\ InitDebounce
    /\ InitApp
    /\ InitSubscribers
    /\ savedState = <<>>

(* the page before any input, preset operation, colour conversion or
   draw-rectangle computation, and before the first placeWords call *)
InitStateManager ==
    /\ state = defaultState
    /\ presets = <<>>
    /\ presetOp = <<>>

InitSession ==
    /\ drawCall = <<>>
    /\ colorCall = <<>>
    /\ runs = <<>>
    /\ InitStateManager
    /\ InitPage

InitPlacer ==
    /\ pc = "idle"
    /\ grid = <<>>
    /\ tierIdx = 0
    /\ i = 0
    /\ commits = <<>>
    /\ lastCommit = <<>>
    /\ attemptLog = <<>>
    /\ attemptsDone = <<>>

InitGridCheck ==
    /\ markedBox = <<>>
    /\ selfCollision = FALSE

(* default size of a canvas element *)
BlankCanvas == [width |-> 300, height |-> 150, painted |-> FALSE]

(* the page after App._bootstrap: the default state, no image loaded *)
InitRenderer ==
    /\ image = "null"
    /\ isGenerating = FALSE
    /\ loadingHidden = TRUE
    /\ emptyHidden = FALSE
    /\ downloadDisabled = TRUE
    /\ mainCanvas = BlankCanvas
    /\ processingCanvas = BlankCanvas
    /\ fontWaits = 0
    /\ timers = 0
    /\ eventLog = <<>>
    /\ errors = 0
    /\ alerts = 0
    /\ calls = 0
    /\ errorEvents = 0
    /\ lastStep = "init"
    /\ runPc = "none"
    /\ payloads = <<>>

Init ==
    /\ sizeTiers \in TierSchedules
    /\ options \in PlacementOptions
    /\ imageData \in Images(CanvasW, CanvasH)
    /\ InitPlacer
    /\ InitGridCheck
    /\ InitSession
    /\ InitRenderer
    /\ InitFilterIdle

Next ==
    \/ \E tiers \in TierSchedules : setSizeTiers(tiers)
    \/ PlaceWordsStart
    \/ Attempt
    \/ TierEnd
    \/ PlaceWordsReturn

Spec == Init /\ [][Next]_vars

----------------------------------------------------------------------------
(* Properties of a placement run *)

BoxCells(box) ==
    {<<x, y>> : x \in box.x..(box.x + box.w - 1), y \in box.y..(box.y + box.h - 1)}

Committed == lastCommit # <<>>

(* C1: in one placeWords run no two committed word boxes share a grid cell
   (two draws of one non-empty box included). *)
C1_NoOverlap ==
    /\ \A a \in DOMAIN commits, b \in DOMAIN commits :
            a # b => BoxCells(a) \cap BoxCells(b) = {}
    /\ \A a \in DOMAIN commits : BoxCells(a) # {} => commits[a] = 1

(* two non-empty boxes committed in one run on the same rows, with a gap
   narrower than the padding between them: the later one starts on an odd
   offset of the earlier one's padding and its samples miss the marks *)
C1_Witness ==
    \E a \in DOMAIN commits, b \in DOMAIN commits :
        /\ BoxCells(a) # {} /\ BoxCells(b) # {}
        /\ a.y < b.y + b.h /\ b.y < a.y + a.h
        /\ a.x + a.w <= b.x
        /\ b.x - (a.x + a.w) < GRID_PADDING

(* C3: in a giant tier no word is committed at a sampled point whose
   brightness in the processed buffer exceeds 100. *)
C3_GiantRestriction ==
    (Committed /\ lastCommit[1].scale10 >= GIANT_SCALE10) =>
        LET px == imageData[lastCommit[1].cy * options.width + lastCommit[1].cx]
        IN  calculateBrightness(px.r, px.g, px.b) <= 1000 * GIANT_MAX_BRIGHTNESS

(* a giant-tier commit on a buffer that has in-mask pixels brighter than 100 *)
C3_Witness ==
    /\ Committed
    /\ lastCommit[1].scale10 >= GIANT_SCALE10
    /\ \E p \in DOMAIN imageData :
            /\ imageData[p].a >= MIN_ALPHA
            /\ calculateBrightness(imageData[p].r, imageData[p].g, imageData[p].b)
                    > 1000 * GIANT_MAX_BRIGHTNESS
            /\ calculateBrightness(imageData[p].r, imageData[p].g, imageData[p].b)
                    < 1000 * options.density

(* C4: every pixel of a committed word's box satisfies checkMask at the
   configured density. *)
C4_BoxInsideMask ==
    Committed =>
        LET c == lastCommit[1]
            box == [x |-> BoxStart(c.cx, c.boxW), y |-> BoxStart(c.cy, c.boxH),
                    w |-> c.boxW, h |-> c.boxH]
        IN  \A cell \in BoxCells(box) :
                checkMask(imageData, cell[1], cell[2], options.width, options.density)

(* C5: in colour mode single the fill colour of a committed word is the
   decoded single colour, in mode source it is the RGB of the buffer's pixel
   at the word's centre. *)
C5_ColorMode ==
    Committed =>
        LET c == lastCommit[1]
            px == imageData[c.cy * options.width + c.cx]
        IN  /\ options.colorMode = "single" =>
                    /\ c.color = hexToRgb(options.color)
                    /\ options.color = HEX_TEAL => c.color = [r |-> 18, g |-> 171, b |-> 255]
            /\ options.colorMode = "source" =>
                    c.color = [r |-> px.r, g |-> px.g, b |-> px.b]

(* a word committed in mode single on a pixel of another colour than the
   single colour (18, 171, 255) *)
C5_Witness ==
    /\ Committed
    /\ options.colorMode = "single"
    /\ lastCommit[1].color = [r |-> 18, g |-> 171, b |-> 255]
    /\ lastCommit[1].pixel.r # 18

(* C6: no attempt of a tier with a smaller scale happens before an attempt
   of a tier with a larger scale. *)
C6_DescendingTiers ==
    \A j \in 1..Len(attemptLog), k \in 1..Len(attemptLog) :
        j < k => attemptLog[j] >= attemptLog[k]

----------------------------------------------------------------------------
(* The attempt budget: runs of placeWords under the default schedule and
   under schedules whose budgets reach and pass the ceiling *)

BudgetCanvas == 3

BudgetOptions ==
    { [width |-> BudgetCanvas, height |-> BudgetCanvas, words |-> <<"Hi">>,
       heroWords |-> <<>>, fontSize |-> 2, density |-> 120, colorMode |-> "single",
       color |-> HEX_BLACK, customPalette |-> <<>>] }

(* the schedules with the buffers they run on: the default schedule on an
   empty mask, a budget above the ceiling and a budget equal to it on a mask
   that has room for one word *)
BudgetRuns ==
    { <<DEFAULT_SIZE_TIERS, ImgWhite(BudgetCanvas, BudgetCanvas)>>,
      << <<Tier(10, MAX_ATTEMPTS + 1), Tier(8, 0)>>,
         ImgDarkBlock(BudgetCanvas, BudgetCanvas) >>,
      << <<Tier(40, 1), Tier(10, MAX_ATTEMPTS)>>,
         ImgDarkBlock(BudgetCanvas, BudgetCanvas) >> }

InitBudget ==
    /\ \E run \in BudgetRuns : sizeTiers = run[1] /\ imageData = run[2]
    /\ options \in BudgetOptions
    /\ InitPlacer
    /\ InitGridCheck
    /\ InitSession
    /\ InitRenderer
    /\ InitFilterIdle

NextBudget ==
    \/ PlaceWordsStart
    \/ Attempt
    \/ TierEnd
    \/ PlaceWordsReturn

(* placeWords is one synchronous call: once made, it runs on *)
SpecBudget == InitBudget /\ [][NextBudget]_vars /\ WF_vars(NextBudget)

BudgetCount ==
    pc \in {"placing", "done"} =>
        \A k \in 1..Len(sizeTiers) :
            LET expected == IF sizeTiers[k].attempts > MAX_ATTEMPTS
                            THEN MAX_ATTEMPTS ELSE sizeTiers[k].attempts
            IN  /\ attemptsDone[k] <= expected
                /\ k < tierIdx => attemptsDone[k] = expected
                /\ k > tierIdx => attemptsDone[k] = 0

(* C7: placeWords terminates, and every tier performs exactly
   min(tier.attempts, 50000) attempts, whatever the grid holds. *)
C7_Budget == []BudgetCount /\ <>(pc = "done")

(* a run that is over, with a word committed before the last attempts of a
   tier cut to 50,000 attempts *)
C7_Witness ==
    /\ pc = "done"
    /\ Committed
    /\ \E k \in 1..Len(sizeTiers) :
            sizeTiers[k].attempts > MAX_ATTEMPTS /\ attemptsDone[k] = MAX_ATTEMPTS

----------------------------------------------------------------------------
(* markGrid followed by checkCollision over the same box *)

GridW == 6
GridH == 5
MaxBox == 3

(* centres on the canvas and one cell outside of it *)
GridBoxes ==
    [cx : (-1)..GridW, cy : (-1)..GridH, boxW : 0..MaxBox, boxH : 0..MaxBox]

FreeGrid(w, h) == [p \in 0..(w * h - 1) |-> 0]

(* a fresh grid, or one that holds the mark of an earlier word *)
GridStates ==
    {FreeGrid(GridW, GridH)} \cup
    { markGrid(FreeGrid(GridW, GridH), b.cx, b.cy, b.boxW, b.boxH, GridW, GridH,
               GRID_PADDING) : b \in GridBoxes }

MarkThenCheck(box) ==
    /\ markedBox = <<>>
    /\ grid' = markGrid(grid, box.cx, box.cy, box.boxW, box.boxH, GridW, GridH,
                        GRID_PADDING)
    /\ markedBox' = <<box>>
    /\ selfCollision' = checkCollision(grid', box.cx, box.cy, box.boxW, box.boxH,
                                       GridW, GridH)
    /\ UNCHANGED <<sizeTiers, options, imageData, pc, tierIdx, i, commits,
                   lastCommit, attemptLog, attemptsDone>>
    /\ UNCHANGED <<genVars, runVars, filterVars, sessionVars>>

InitGrid ==
    /\ sizeTiers = DEFAULT_SIZE_TIERS
    /\ options \in BudgetOptions
    /\ imageData = ImgWhite(GridW, GridH)
    /\ pc = "idle"
    /\ grid \in GridStates
    /\ tierIdx = 0
    /\ i = 0
    /\ commits = <<>>
    /\ lastCommit = <<>>
    /\ attemptLog = <<>>
    /\ attemptsDone = <<>>
    /\ InitGridCheck
    /\ InitSession
    /\ InitRenderer
    /\ InitFilterIdle

NextGrid == \E box \in GridBoxes : MarkThenCheck(box)

SpecGrid == InitGrid /\ [][NextGrid]_vars

(* C2 as stated: checkCollision over a box right after markGrid for the same
   box returns true, for any centre, width and height. *)
C2_SelfCollision == markedBox # <<>> => selfCollision

(* C2, amended: it returns true for every box of width and height >= 1. *)
C2_SelfCollisionNonEmpty ==
    (markedBox # <<>> /\ markedBox[1].boxW >= 1 /\ markedBox[1].boxH >= 1) =>
        selfCollision

(* a box inside the canvas, wider than the sampling stride, marked and found
   to collide with itself *)
C2_Witness ==
    /\ markedBox # <<>>
    /\ markedBox[1].boxW >= 2 /\ markedBox[1].boxH >= 1
    /\ BoxStart(markedBox[1].cx, markedBox[1].boxW) >= 0
    /\ BoxStart(markedBox[1].cy, markedBox[1].boxH) >= 0
    /\ BoxStart(markedBox[1].cx, markedBox[1].boxW) + markedBox[1].boxW < GridW
    /\ BoxStart(markedBox[1].cy, markedBox[1].boxH) + markedBox[1].boxH < GridH
    /\ selfCollision

----------------------------------------------------------------------------
(* CanvasRenderer: generate and processGeneration, with the listeners that
   bindEvents puts on the event bus and the global ErrorHandler *)

MaxCalls == 3
MaxErrorEvents == 2

DEFAULT_CANVAS_WIDTH == 2400
DEFAULT_CANVAS_HEIGHT == 3600
MAX_ERRORS == 50

GENERATION_START == "generation:start"
GENERATION_COMPLETE == "generation:complete"
GENERATION_ERROR == "generation:error"

(* what the steps of the renderer leave alone *)
notGenVars == <<placeVars, gridCheckVars, runPc, filterVars, sessionVars>>

(* emit(GENERATION_START): the listener showLoading *)
EmitGenerationStart ==
    /\ eventLog' = Append(eventLog, GENERATION_START)
    /\ payloads' = Append(payloads, "none")
    /\ loadingHidden' = FALSE
    /\ emptyHidden' = TRUE
    /\ isGenerating' = TRUE

(* emit(GENERATION_COMPLETE): the listener hideLoading *)
EmitGenerationComplete ==
    /\ eventLog' = Append(eventLog, GENERATION_COMPLETE)
    /\ payloads' = Append(payloads, "duration")
    /\ loadingHidden' = TRUE
    /\ isGenerating' = FALSE

(* emit(GENERATION_ERROR): the listener hideLoading *)
EmitGenerationError ==
    /\ eventLog' = Append(eventLog, GENERATION_ERROR)
    /\ payloads' = Append(payloads, "error")
    /\ loadingHidden' = TRUE
    /\ isGenerating' = FALSE

(* the error is stored and logged, and no event is emitted *)
handleError_silent ==
    /\ errors' = IF errors + 1 > MAX_ERRORS THEN MAX_ERRORS ELSE errors + 1
    /\ UNCHANGED <<eventLog, payloads, loadingHidden, isGenerating>>

(* ErrorHandler.handleError, called by the window listeners of init *)
handleError ==
    /\ errors' = IF errors + 1 > MAX_ERRORS THEN MAX_ERRORS ELSE errors + 1
    /\ EmitGenerationError

ImageMissing_never == FALSE

(* !image *)
ImageMissing == image = "null"

(* ImageUploader.loadFile, img.onload: setState({ image: img }) *)
LoadImage ==
    /\ image = "null"
    /\ image' = "img"
    /\ lastStep' = "imageLoaded"
    /\ UNCHANGED <<payloads, isGenerating, loadingHidden, emptyHidden, downloadDisabled,
                   mainCanvas, processingCanvas, fontWaits, timers, eventLog, errors,
                   alerts, calls, errorEvents>>
    /\ UNCHANGED notGenVars

(* a click on the generate button: generate() up to its await *)
generate ==
    /\ calls < MaxCalls
    /\ calls' = calls + 1
    /\ UNCHANGED <<image, downloadDisabled, mainCanvas, processingCanvas, timers,
                   errors, errorEvents>>
    /\ UNCHANGED notGenVars
    /\ IF ImageMissing
       THEN /\ alerts' = alerts + 1
            /\ lastStep' = "alert"
            /\ UNCHANGED <<isGenerating, loadingHidden, emptyHidden, fontWaits, eventLog,
                           payloads>>
       ELSE IF isGenerating
       THEN /\ lastStep' = "rejected"
            /\ UNCHANGED <<isGenerating, loadingHidden, emptyHidden, fontWaits, eventLog,
                           payloads, alerts>>
       ELSE /\ EmitGenerationStart
            /\ fontWaits' = fontWaits + 1
            /\ lastStep' = "accepted"
            /\ UNCHANGED alerts

(* document.fonts.ready is fulfilled: generate() goes on and sets the timer *)
FontsReady ==
    /\ fontWaits > 0
    /\ fontWaits' = fontWaits - 1
    /\ timers' = timers + 1
    /\ lastStep' = "scheduled"
    /\ UNCHANGED <<payloads, image, isGenerating, loadingHidden, emptyHidden, downloadDisabled,
                   mainCanvas, processingCanvas, eventLog, errors, alerts, calls,
                   errorEvents>>
    /\ UNCHANGED notGenVars

(* the font wait throws: the catch of generate() *)
FontsFailed ==
    /\ fontWaits > 0
    /\ fontWaits' = fontWaits - 1
    /\ EmitGenerationError
    /\ lastStep' = "fontWaitFailed"
    /\ UNCHANGED <<image, emptyHidden, downloadDisabled, mainCanvas, processingCanvas,
                   timers, errors, alerts, calls, errorEvents>>
    /\ UNCHANGED notGenVars

SizedCanvas(painted) ==
    [width |-> DEFAULT_CANVAS_WIDTH, height |-> DEFAULT_CANVAS_HEIGHT, painted |-> painted]

(* the timer fires: processGeneration runs to its end *)
ProcessGenerationCompletes ==
    /\ timers > 0
    /\ timers' = timers - 1
    /\ mainCanvas' = SizedCanvas(TRUE)
    /\ processingCanvas' = SizedCanvas(TRUE)
    /\ downloadDisabled' = FALSE
    /\ EmitGenerationComplete
    /\ lastStep' = "completed"
    /\ UNCHANGED <<image, emptyHidden, fontWaits, errors, alerts, calls, errorEvents>>
    /\ UNCHANGED notGenVars

(* the timer fires and processGeneration throws, in processImage or in
   placeWords: the exception leaves the timer callback, the window error
   event is dispatched and ErrorHandler handles it *)
ProcessGenerationThrows ==
    /\ timers > 0
    /\ timers' = timers - 1
    /\ \E inPlaceWords \in BOOLEAN :
            /\ processingCanvas' = SizedCanvas(inPlaceWords)
            /\ mainCanvas' = SizedCanvas(inPlaceWords)
    /\ handleError
    /\ lastStep' = "processFailed"
    /\ UNCHANGED <<image, emptyHidden, downloadDisabled, fontWaits, alerts, calls,
                   errorEvents>>
    /\ UNCHANGED notGenVars

(* an uncaught error or an unhandled rejection of any other code of the page:
   the window listeners of ErrorHandler.init *)
GlobalError ==
    /\ errorEvents < MaxErrorEvents
    /\ errorEvents' = errorEvents + 1
    /\ handleError
    /\ lastStep' = "globalError"
    /\ UNCHANGED <<image, emptyHidden, downloadDisabled, mainCanvas, processingCanvas,
                   fontWaits, timers, alerts, calls>>
    /\ UNCHANGED notGenVars

InitGen ==
    /\ sizeTiers = DEFAULT_SIZE_TIERS
    /\ options \in BudgetOptions
    /\ imageData = ImgWhite(BudgetCanvas, BudgetCanvas)
    /\ InitPlacer
    /\ InitGridCheck
    /\ InitSession
    /\ InitRenderer
    /\ InitFilterIdle

NextGen ==
    \/ LoadImage
    \/ generate
    \/ FontsReady
    \/ FontsFailed
    \/ ProcessGenerationCompletes
    \/ ProcessGenerationThrows
    \/ GlobalError

SpecGen == InitGen /\ [][NextGen]_vars

(* runs whose processGeneration has not finished *)
PendingRuns == fontWaits + timers

(* C8: a generate() call made while a run is pending is rejected, so two
   processGeneration calls are never pending at the same time. *)
C8_SingleRunPending == PendingRuns <= 1

RunFailed == lastStep \in {"fontWaitFailed", "processFailed"}

(* C9: when a run fails in the font wait or in processGeneration,
   GENERATION_ERROR is emitted and _isGenerating is cleared, and a
   generate() call made next is accepted. *)
C9_FailureClearsFlag ==
    /\ [](RunFailed =>
            /\ Len(eventLog) > 0 /\ eventLog[Len(eventLog)] = GENERATION_ERROR
            /\ isGenerating = FALSE)
    /\ [][(RunFailed /\ calls' = calls + 1) =>
            /\ lastStep' = "accepted"
            /\ eventLog' = Append(eventLog, GENERATION_START)
            /\ fontWaits' = fontWaits + 1]_vars

(* processGeneration threw, no other error event was raised, and the next
   generate() call was accepted *)
C9_Witness ==
    /\ lastStep = "accepted"
    /\ errorEvents = 0
    /\ errors > 0
    /\ Len(eventLog) >= 3
    /\ eventLog[Len(eventLog) - 1] = GENERATION_ERROR
    /\ eventLog[Len(eventLog)] = GENERATION_START

(* C10: generate() called with no image loaded alerts and returns: no event,
   no timer, the flag and both canvases unchanged. *)
C10_NoImageNoRun ==
    [][(calls' = calls + 1 /\ image = "null") =>
            /\ alerts' = alerts + 1
            /\ UNCHANGED <<eventLog, fontWaits, timers, isGenerating, mainCanvas,
                           processingCanvas>>]_vars

(* generate() was called with no image, after an image-less call already *)
C10_Witness == lastStep = "alert" /\ alerts = 2 /\ image = "null"

----------------------------------------------------------------------------
(* A generation run step by step: processGeneration is followed through its
   stages, to see which handlers can run between them *)

processGeneration_awaitsBetweenStages == TRUE

(* processGeneration is a plain function: it has no await and hands no
   callback over, so nothing else runs before it returns *)
processGeneration_yields == FALSE

(* the handlers of the page run one at a time, to completion *)
HandlerMayRun == runPc = "none" \/ processGeneration_yields

(* the timer fires: processGeneration is entered and sizes both canvases,
   which clears them *)
RunStart ==
    /\ HandlerMayRun
    /\ timers > 0
    /\ timers' = timers - 1
    /\ runPc' = "sized"
    /\ mainCanvas' = SizedCanvas(FALSE)
    /\ processingCanvas' = SizedCanvas(FALSE)
    /\ lastStep' = "runStarted"
    /\ UNCHANGED <<image, isGenerating, loadingHidden, emptyHidden, downloadDisabled,
                   fontWaits, eventLog, payloads, errors, alerts, calls, errorEvents>>
    /\ UNCHANGED <<placeVars, gridCheckVars, filterVars, sessionVars>>

(* imageProcessor.processImage(this.procCtx, image, ...) *)
RunProcessImage ==
    /\ runPc = "sized"
    /\ runPc' = "processed"
    /\ processingCanvas' = SizedCanvas(TRUE)
    /\ lastStep' = "processImage"
    /\ UNCHANGED <<image, isGenerating, loadingHidden, emptyHidden, downloadDisabled,
                   mainCanvas, fontWaits, timers, eventLog, payloads, errors, alerts,
                   calls, errorEvents>>
    /\ UNCHANGED <<placeVars, gridCheckVars, filterVars, sessionVars>>

(* wordPlacer.placeWords(this.ctx, imageData.data, ...) *)
RunPlaceWords ==
    /\ runPc = "processed"
    /\ runPc' = "placed"
    /\ mainCanvas' = SizedCanvas(TRUE)
    /\ lastStep' = "placeWords"
    /\ UNCHANGED <<image, isGenerating, loadingHidden, emptyHidden, downloadDisabled,
                   processingCanvas, fontWaits, timers, eventLog, payloads, errors,
                   alerts, calls, errorEvents>>
    /\ UNCHANGED <<placeVars, gridCheckVars, filterVars, sessionVars>>

(* the download button is enabled, but nothing is emitted *)
RunComplete_noEmit ==
    /\ runPc = "placed"
    /\ runPc' = "none"
    /\ downloadDisabled' = FALSE
    /\ lastStep' = "completed"
    /\ UNCHANGED <<image, isGenerating, loadingHidden, emptyHidden, mainCanvas,
                   processingCanvas, fontWaits, timers, eventLog, payloads, errors,
                   alerts, calls, errorEvents>>
    /\ UNCHANGED <<placeVars, gridCheckVars, filterVars, sessionVars>>

(* the end of processGeneration: the download button is enabled and
   GENERATION_COMPLETE is emitted with { duration } *)
RunComplete ==
    /\ runPc = "placed"
    /\ runPc' = "none"
    /\ downloadDisabled' = FALSE
    /\ EmitGenerationComplete
    /\ lastStep' = "completed"
    /\ UNCHANGED <<image, emptyHidden, mainCanvas, processingCanvas, fontWaits, timers,
                   errors, alerts, calls, errorEvents>>
    /\ UNCHANGED <<placeVars, gridCheckVars, filterVars, sessionVars>>

(* processImage or placeWords throws: the exception leaves processGeneration
   and the timer callback, and the window listener of ErrorHandler handles it *)
RunThrows ==
    /\ runPc \in {"sized", "processed"}
    /\ runPc' = "none"
    /\ \E partly \in BOOLEAN :
            IF runPc = "sized"
            THEN processingCanvas' = SizedCanvas(partly) /\ UNCHANGED mainCanvas
            ELSE mainCanvas' = SizedCanvas(partly) /\ UNCHANGED processingCanvas
    /\ handleError
    /\ lastStep' = "processFailed"
    /\ UNCHANGED <<image, emptyHidden, downloadDisabled, fontWaits, timers, alerts,
                   calls, errorEvents>>
    /\ UNCHANGED <<placeVars, gridCheckVars, filterVars, sessionVars>>

NextRun ==
    \/ HandlerMayRun /\ LoadImage
    \/ HandlerMayRun /\ generate
    \/ HandlerMayRun /\ FontsReady
    \/ HandlerMayRun /\ FontsFailed
    \/ HandlerMayRun /\ GlobalError
    \/ RunStart
    \/ RunProcessImage
    \/ RunPlaceWords
    \/ RunComplete
    \/ RunThrows

(* the steps the browser is bound to take: a promise that is settled resumes
   generate(), a timer that is due fires, and running code goes on *)
RunProgress ==
    \/ HandlerMayRun /\ FontsReady
    \/ HandlerMayRun /\ FontsFailed
    \/ RunStart
    \/ RunProcessImage
    \/ RunPlaceWords
    \/ RunComplete
    \/ RunThrows

SpecRun == InitGen /\ [][NextRun]_vars /\ WF_vars(RunProgress)

ProcessSteps == {"runStarted", "processImage", "placeWords", "completed", "processFailed"}

(* C11 as stated: the font wait is the only suspension point, so once it is
   over (the run waits in its timer or is processing) the next step is a step
   of that run's processing, never another handler. *)
C11_OnlyFontWaitSuspends ==
    [][(timers > 0 \/ runPc # "none") => lastStep' \in ProcessSteps]_vars

(* C11, amended: once processGeneration has been entered, only its own steps
   run until it has emitted GENERATION_COMPLETE or failed. *)
C11_NoHandlerInsideRun ==
    [][runPc # "none" => (lastStep' \in ProcessSteps \ {"runStarted"})]_vars

(* a run went through all its stages while a click and an error event were
   still to come *)
C11_Witness ==
    /\ lastStep = "completed"
    /\ runPc = "none"
    /\ calls = 1
    /\ errorEvents = 0
    /\ mainCanvas.painted /\ processingCanvas.painted

EventBound == 3 * MaxCalls + MaxErrorEvents

RECURSIVE CountEvents(_, _, _)
CountEvents(log, type, upTo) ==
    IF upTo = 0 THEN 0
    ELSE (IF log[upTo] = type THEN 1 ELSE 0) + CountEvents(log, type, upTo - 1)

(* C12: an accepted generate() call emits GENERATION_START before any
   processing; GENERATION_COMPLETE carries the duration and never outnumbers
   the GENERATION_STARTs before it; every GENERATION_START is followed, in the
   end, by a GENERATION_COMPLETE or a GENERATION_ERROR. *)
C12_Lifecycle ==
    /\ [][(lastStep' = "accepted" /\ calls' = calls + 1) =>
            eventLog' = Append(eventLog, GENERATION_START)]_vars
    /\ [](fontWaits + timers + (IF runPc = "none" THEN 0 ELSE 1)
            <= CountEvents(eventLog, GENERATION_START, Len(eventLog)))
    /\ [](\A k \in 1..Len(eventLog) :
            eventLog[k] = GENERATION_COMPLETE =>
                /\ payloads[k] = "duration"
                /\ CountEvents(eventLog, GENERATION_COMPLETE, k)
                        <= CountEvents(eventLog, GENERATION_START, k))
    /\ [](\A k \in 1..(Len(eventLog) - 1) :
            eventLog[k] = GENERATION_START =>
                eventLog[k + 1] \in {GENERATION_COMPLETE, GENERATION_ERROR})
    /\ \A n \in 1..EventBound :
            (Len(eventLog) = n /\ eventLog[n] = GENERATION_START) ~> (Len(eventLog) > n)

(* one run that completed and one that failed *)
C12_Witness ==
    /\ Len(eventLog) = 4
    /\ eventLog = <<GENERATION_START, GENERATION_COMPLETE, GENERATION_START,
                    GENERATION_ERROR>>
    /\ lastStep = "processFailed"

----------------------------------------------------------------------------
(* The filters of ImageProcessor called on their own, one after the other *)

FilterW == 3
FilterH == 3
MaxFilterCalls == 2

(* brightness 112.114: above Math.round(255 * 0.44) = 112, below 112.2 *)
DIM == Px(112, 112, 113, 255)
(* brightness 112 *)
GRAY112 == Px(112, 112, 112, 255)
(* brightness 112 exactly, which the double arithmetic gives as 112.00000000000001 *)
TIE_UP == Px(231, 71, 11, 255)
(* brightness 112 exactly, which the double arithmetic gives as 111.99999999999999 *)
TIE_DOWN == Px(11, 165, 104, 255)
(* light and half transparent *)
HALF == Px(200, 220, 240, 128)

FilterPalette == <<GRAY112, BLACK, DIM, WHITE, TIE_UP, RED, HALF, TIE_DOWN, GRAY>>

FilterImage(w, h, shift) ==
    ImageData(w, h, [q \in 0..(PixelCount(w, h) - 1) |->
                        FilterPalette[((2 * q + shift) % Len(FilterPalette)) + 1]])

(* two dark columns, then pixels just above the default cutoff of 112 *)
ImgDarkColumns(w, h) ==
    [q \in 0..(PixelCount(w, h) - 1) |-> IF q % w < 2 THEN GRAY ELSE DIM]

(* two black rows, then pixels whose brightness the double arithmetic puts
   just above 112 *)
ImgDarkRows(w, h) ==
    [q \in 0..(PixelCount(w, h) - 1) |-> IF q \div w < 2 THEN BLACK ELSE TIE_UP]

FilterImages ==
    {FilterImage(FilterW, FilterH, shift) : shift \in 0..2}
        \cup {ImageData(FilterW, FilterH, ImgWhite(FilterW, FilterH)),
              ImageData(FilterW, FilterH, ImgDarkColumns(FilterW, FilterH)),
              ImageData(FilterW, FilterH, ImgDarkRows(FilterW, FilterH))}

ThresholdPercents == {0, 44, 100}
EdgeStrengths == {-1, 0, 2, 10}
NegativeColors == {DefaultProcOptions.negativeColor, HEX_BLACK}

FilterCall(op, arg, color) == [op |-> op, arg |-> arg, color |-> color, input |-> buf.data]

FilterUnchanged ==
    /\ UNCHANGED <<procOptions, ipc, maskQuery>>
    /\ UNCHANGED <<placeVars, gridCheckVars, genVars, runVars, sessionVars>>

CallThreshold(thresholdPercent) ==
    /\ Len(filterLog) < MaxFilterCalls
    /\ bufPrev' = buf
    /\ buf' = [buf EXCEPT !.data = applyThreshold(buf.data, thresholdPercent)]
    /\ filterLog' = Append(filterLog, FilterCall("applyThreshold", thresholdPercent, <<>>))
    /\ FilterUnchanged

CallNegative(thresholdPercent, negativeColor) ==
    /\ Len(filterLog) < MaxFilterCalls
    /\ bufPrev' = buf
    /\ buf' = [buf EXCEPT !.data = applyNegative(buf.data, thresholdPercent, negativeColor)]
    /\ filterLog' = Append(filterLog,
                           FilterCall("applyNegative", thresholdPercent, negativeColor))
    /\ FilterUnchanged

CallEdgeDetection(strength) ==
    /\ Len(filterLog) < MaxFilterCalls
    /\ bufPrev' = buf
    /\ buf' = [buf EXCEPT !.data = applyEdgeDetection(buf, strength)]
    /\ filterLog' = Append(filterLog, FilterCall("applyEdgeDetection", strength, <<>>))
    /\ FilterUnchanged

InitFilter ==
    /\ sizeTiers = DEFAULT_SIZE_TIERS
    /\ options \in BudgetOptions
    /\ imageData = ImgWhite(BudgetCanvas, BudgetCanvas)
    /\ InitPlacer
    /\ InitGridCheck
    /\ InitSession
    /\ InitRenderer
    /\ buf \in FilterImages
    /\ bufPrev = NoImageData
    /\ filterLog = <<>>
    /\ procOptions = DefaultProcOptions
    /\ ipc = "idle"
    /\ maskQuery = <<>>

NextFilter ==
    \/ \E thresholdPercent \in ThresholdPercents : CallThreshold(thresholdPercent)
    \/ \E thresholdPercent \in ThresholdPercents, negativeColor \in NegativeColors :
            CallNegative(thresholdPercent, negativeColor)
    \/ \E strength \in EdgeStrengths : CallEdgeDetection(strength)

SpecFilter == InitFilter /\ [][NextFilter]_vars

LastCall == filterLog[Len(filterLog)]
LastIs(op) == Len(filterLog) > 0 /\ LastCall.op = op
Rgb(px) == <<px.r, px.g, px.b>>

(* applyThreshold called twice in a row with one percentage *)
ThresholdTwice ==
    /\ Len(filterLog) >= 2
    /\ LastCall.op = "applyThreshold"
    /\ filterLog[Len(filterLog) - 1].op = "applyThreshold"
    /\ filterLog[Len(filterLog) - 1].arg = LastCall.arg

(* C13: a second applyThreshold with the same percentage changes nothing. *)
C13_ThresholdIdempotent == ThresholdTwice => buf = bufPrev

(* the first of two passes forced a pixel to white and left a dark one *)
C13_Witness ==
    /\ ThresholdTwice
    /\ \E q \in DOMAIN buf.data :
            /\ Rgb(buf.data[q]) = <<255, 255, 255>>
            /\ Rgb(filterLog[Len(filterLog) - 1].input[q]) # <<255, 255, 255>>
    /\ \E q \in DOMAIN buf.data : Rgb(buf.data[q]) = Rgb(GRAY112)

(* C14 as stated: white exactly when the brightness exceeds 255 p / 100,
   the other pixels and every alpha unchanged. *)
C14_ThresholdExactCutoff ==
    LastIs("applyThreshold") =>
        \A q \in DOMAIN buf.data :
            LET old == bufPrev.data[q]
                exact == calculateBrightness(old.r, old.g, old.b)
                exceeds == \/ 100 * exact > 255000 * LastCall.arg
                           \/ /\ 100 * exact = 255000 * LastCall.arg
                              /\ BrightnessError(old.r, old.g, old.b) > 0
            IN  /\ buf.data[q].a = old.a
                /\ Rgb(buf.data[q]) = IF exceeds THEN <<255, 255, 255>> ELSE Rgb(old)

(* C14, amended: white exactly when the brightness exceeds
   Math.round(255 p / 100), the other pixels and every alpha unchanged. *)
C14_ThresholdRoundedCutoff ==
    LastIs("applyThreshold") =>
        \A q \in DOMAIN buf.data :
            LET old == bufPrev.data[q]
                cutoff == (255 * LastCall.arg + 50) \div 100
            IN  /\ buf.data[q].a = old.a
                /\ Rgb(buf.data[q]) = IF BrightnessAbove(old.r, old.g, old.b, cutoff)
                                      THEN <<255, 255, 255>> ELSE Rgb(old)

(* a pass at 44 % that forced the half transparent pixel to white and left
   the pixel of brightness 112 as it was *)
C14_Witness ==
    /\ LastIs("applyThreshold")
    /\ LastCall.arg = 44
    /\ \E q \in DOMAIN buf.data :
            bufPrev.data[q] = HALF /\ buf.data[q] = Px(255, 255, 255, 128)
    /\ \E q \in DOMAIN buf.data : bufPrev.data[q] = GRAY112 /\ buf.data[q] = GRAY112

(* C15: after applyEdgeDetection with a strength >= 0 no channel of an
   interior pixel is above its value before. *)
C15_EdgeNeverBrightens ==
    (LastIs("applyEdgeDetection") /\ LastCall.arg >= 0) =>
        \A q \in DOMAIN buf.data :
            Interior(q % buf.width, q \div buf.width, buf.width, buf.height) =>
                /\ buf.data[q].r <= bufPrev.data[q].r
                /\ buf.data[q].g <= bufPrev.data[q].g
                /\ buf.data[q].b <= bufPrev.data[q].b

(* an interior pixel darkened, but not to black, by a positive strength *)
C15_Witness ==
    /\ LastIs("applyEdgeDetection")
    /\ LastCall.arg > 0
    /\ \E q \in DOMAIN buf.data :
            /\ Interior(q % buf.width, q \div buf.width, buf.width, buf.height)
            /\ buf.data[q].r < bufPrev.data[q].r
            /\ buf.data[q].r > 0

ClampedSum(c, negativeChannel) ==
    IF 255 - c + negativeChannel > 255 THEN 255
    ELSE IF 255 - c + negativeChannel < 0 THEN 0
    ELSE 255 - c + negativeChannel

(* C16: applyNegative replaces the channels of the pixels at or below the
   cutoff by clamp(255 - c + negativeChannel) and leaves the others as they
   are; after applyThreshold with the same percentage it leaves every pixel
   that applyThreshold forced to white as it is. *)
C16_Negative ==
    LastIs("applyNegative") =>
        LET cutoff == (255 * LastCall.arg + 50) \div 100
            neg == hexToRgb(LastCall.color)
        IN  /\ \A q \in DOMAIN buf.data :
                    LET old == bufPrev.data[q]
                    IN  IF BrightnessAbove(old.r, old.g, old.b, cutoff)
                        THEN buf.data[q] = old
                        ELSE buf.data[q] = Px(ClampedSum(old.r, neg.r),
                                              ClampedSum(old.g, neg.g),
                                              ClampedSum(old.b, neg.b), old.a)
            /\ (/\ Len(filterLog) >= 2
                /\ filterLog[Len(filterLog) - 1].op = "applyThreshold"
                /\ filterLog[Len(filterLog) - 1].arg = LastCall.arg) =>
                    \A q \in DOMAIN buf.data :
                        LET first == filterLog[Len(filterLog) - 1].input[q]
                        IN  BrightnessAbove(first.r, first.g, first.b, cutoff) =>
                                buf.data[q] = Px(255, 255, 255, first.a)

(* applyNegative at 44 % after applyThreshold at 44 %: a pixel forced to
   white was left, the pixel of brightness 112 was replaced *)
C16_Witness ==
    /\ LastIs("applyNegative")
    /\ LastCall.arg = 44
    /\ Len(filterLog) >= 2
    /\ filterLog[Len(filterLog) - 1].op = "applyThreshold"
    /\ filterLog[Len(filterLog) - 1].arg = 44
    /\ \E q \in DOMAIN buf.data :
            filterLog[Len(filterLog) - 1].input[q] = DIM /\ buf.data[q] = WHITE
    /\ \E q \in DOMAIN buf.data :
            bufPrev.data[q] = GRAY112 /\ buf.data[q].r = 255 - 112 + hexToRgb(LastCall.color).r

----------------------------------------------------------------------------
(* processImage, step by step *)

ProcOptionSets ==
    [threshold : {44, 100}, edges : {0, 2}, negative : BOOLEAN,
     negativeColor : {DefaultProcOptions.negativeColor}]

ProcessUnchanged ==
    /\ UNCHANGED <<procOptions, maskQuery>>
    /\ UNCHANGED <<placeVars, gridCheckVars, genVars, runVars, sessionVars>>

(* ctx.fillStyle = '#FFFFFF'; ctx.fillRect(0, 0, width, height) *)
FillBackground ==
    /\ ipc = "idle"
    /\ ipc' = "filled"
    /\ filterLog' = Append(filterLog, FilterCall("fillRect", 0, <<>>))
    /\ UNCHANGED <<buf, bufPrev>>
    /\ ProcessUnchanged

(* ctx.drawImage(image, curX, curY, drawW, drawH) *)
DrawImage ==
    /\ ipc = "filled"
    /\ ipc' = "drawn"
    /\ filterLog' = Append(filterLog, FilterCall("drawImage", 0, <<>>))
    /\ UNCHANGED <<buf, bufPrev>>
    /\ ProcessUnchanged

(* ctx.getImageData(0, 0, width, height): the pixels the canvas holds *)
GetImageData ==
    /\ ipc = "drawn"
    /\ ipc' = "read"
    /\ \E img \in FilterImages : buf' = img
    /\ bufPrev' = buf
    /\ filterLog' = Append(filterLog, FilterCall("getImageData", 0, <<>>))
    /\ ProcessUnchanged

(* applyEdgeDetection is called whatever edges is *)
EdgeStep_unguarded ==
    /\ ipc = "read"
    /\ ipc' = "edged"
    /\ bufPrev' = buf
    /\ buf' = [buf EXCEPT !.data = applyEdgeDetection(buf, procOptions.edges)]
    /\ filterLog' = Append(filterLog,
                           FilterCall("applyEdgeDetection", procOptions.edges, <<>>))
    /\ ProcessUnchanged

(* if (edges > 0) this.applyEdgeDetection(imageData, edges) *)
EdgeStep ==
    /\ ipc = "read"
    /\ ipc' = "edged"
    /\ IF procOptions.edges > 0
       THEN /\ bufPrev' = buf
            /\ buf' = [buf EXCEPT !.data = applyEdgeDetection(buf, procOptions.edges)]
            /\ filterLog' = Append(filterLog,
                                   FilterCall("applyEdgeDetection", procOptions.edges, <<>>))
       ELSE UNCHANGED <<buf, bufPrev, filterLog>>
    /\ ProcessUnchanged

(* this.applyThreshold(imageData, threshold) *)
ThresholdStep ==
    /\ ipc = "edged"
    /\ ipc' = "thresholded"
    /\ bufPrev' = buf
    /\ buf' = [buf EXCEPT !.data = applyThreshold(buf.data, procOptions.threshold)]
    /\ filterLog' = Append(filterLog,
                           FilterCall("applyThreshold", procOptions.threshold, <<>>))
    /\ ProcessUnchanged

(* if (negative) this.applyNegative(imageData, threshold, negativeColor);
   return imageData *)
NegativeStep ==
    /\ ipc = "thresholded"
    /\ ipc' = "returned"
    /\ IF procOptions.negative
       THEN /\ bufPrev' = buf
            /\ buf' = [buf EXCEPT !.data = applyNegative(buf.data, procOptions.threshold,
                                                         procOptions.negativeColor)]
            /\ filterLog' = Append(filterLog,
                                   FilterCall("applyNegative", procOptions.threshold,
                                              procOptions.negativeColor))
       ELSE UNCHANGED <<buf, bufPrev, filterLog>>
    /\ ProcessUnchanged

InitProcess ==
    /\ sizeTiers = DEFAULT_SIZE_TIERS
    /\ options \in BudgetOptions
    /\ imageData = ImgWhite(BudgetCanvas, BudgetCanvas)
    /\ InitPlacer
    /\ InitGridCheck
    /\ InitSession
    /\ InitRenderer
    /\ buf = NoImageData
    /\ bufPrev = NoImageData
    /\ filterLog = <<>>
    /\ procOptions \in ProcOptionSets
    /\ ipc = "idle"
    /\ maskQuery = <<>>

NextProcess ==
    \/ FillBackground
    \/ DrawImage
    \/ GetImageData
    \/ EdgeStep
    \/ ThresholdStep
    \/ NegativeStep

SpecProcess == InitProcess /\ [][NextProcess]_vars

(* the calls of a whole processImage call under the options opts: the
   canvas calls, then the filters in their fixed order *)
ExpectedCalls(opts) ==
    <<"fillRect", "drawImage", "getImageData">>
        \o (IF opts.edges > 0 THEN <<"applyEdgeDetection">> ELSE <<>>)
        \o <<"applyThreshold">>
        \o (IF opts.negative THEN <<"applyNegative">> ELSE <<>>)

(* C17: the calls of processImage are, in this order, the background fill,
   the drawing of the image, the read of the pixels, edge detection (only
   when edges > 0), threshold (always), negative (only when enabled). *)
C17_FilterOrder ==
    LET expected == ExpectedCalls(procOptions)
    IN  /\ Len(filterLog) <= Len(expected)
        /\ \A k \in 1..Len(filterLog) : filterLog[k].op = expected[k]
        /\ ipc = "returned" => Len(filterLog) = Len(expected)
        /\ ipc \in {"thresholded", "returned"} =>
                \E k \in 1..Len(filterLog) :
                    /\ filterLog[k].op = "applyThreshold"
                    /\ filterLog[k].arg = procOptions.threshold

(* a call with edges = 0 and negative enabled returned, after threshold had
   forced a pixel to white *)
C17_Witness ==
    /\ ipc = "returned"
    /\ procOptions.edges = 0
    /\ procOptions.negative
    /\ Len(filterLog) = 5
    /\ \E q \in DOMAIN buf.data :
            filterLog[4].input[q] = DIM /\ buf.data[q] = WHITE

----------------------------------------------------------------------------
(* The mask and colour queries called on their own, at coordinates inside
   the buffer and one pixel outside of it *)

MaskW == 3
MaskH == 3

(* black, with an alpha just below and at the limit of checkMask *)
FAINT9 == Px(0, 0, 0, 9)
FAINT10 == Px(0, 0, 0, 10)

MaskPalette == <<BLACK, TIE_DOWN, WHITE, GRAY112, FAINT9, RED, FAINT10>>

MaskImage(w, h, shift) ==
    ImageData(w, h, [q \in 0..(PixelCount(w, h) - 1) |->
                        MaskPalette[((3 * q + shift) % Len(MaskPalette)) + 1]])

MaskImages == {MaskImage(MaskW, MaskH, shift) : shift \in 0..2}

Densities == {0, 112, 113, 255}

(* checkMask at two densities and getPixelColor, at one position *)
MaskQuery(x, y, density, density2) ==
    /\ maskQuery' = <<[x |-> x, y |-> y, density |-> density, density2 |-> density2,
                       mask |-> checkMask(buf.data, x, y, buf.width, density),
                       mask2 |-> checkMask(buf.data, x, y, buf.width, density2),
                       color |-> getPixelColor(buf.data, x, y, buf.width)]>>
    /\ UNCHANGED <<buf, bufPrev, filterLog, procOptions, ipc>>
    /\ UNCHANGED <<placeVars, gridCheckVars, genVars, runVars, sessionVars>>

InitMask ==
    /\ sizeTiers = DEFAULT_SIZE_TIERS
    /\ options \in BudgetOptions
    /\ imageData = ImgWhite(BudgetCanvas, BudgetCanvas)
    /\ InitPlacer
    /\ InitGridCheck
    /\ InitSession
    /\ InitRenderer
    /\ buf \in MaskImages
    /\ bufPrev = NoImageData
    /\ filterLog = <<>>
    /\ procOptions = DefaultProcOptions
    /\ ipc = "idle"
    /\ maskQuery = <<>>

NextMask ==
    \E x \in (-1)..MaskW, y \in (-1)..MaskH, density \in Densities, density2 \in Densities :
        density < density2 /\ MaskQuery(x, y, density, density2)

SpecMask == InitMask /\ [][NextMask]_vars

Asked == maskQuery # <<>>

(* (x, y) is a pixel of the buffer *)
InBuffer(x, y) == x >= 0 /\ x < buf.width /\ y >= 0 /\ y < buf.height

(* C18: checkMask is true if and only if (x, y) is a pixel of the buffer,
   its alpha is >= 10 and its brightness is < density. *)
C18_MaskIffEligiblePixel ==
    Asked =>
        LET m == maskQuery[1]
        IN  m.mask <=>
                /\ InBuffer(m.x, m.y)
                /\ buf.data[m.y * buf.width + m.x].a >= 10
                /\ BrightnessBelow(buf.data[m.y * buf.width + m.x].r,
                                   buf.data[m.y * buf.width + m.x].g,
                                   buf.data[m.y * buf.width + m.x].b, m.density)

(* C19: outside the buffer checkMask is false and getPixelColor gives the
   zero colour. *)
C19_OutsideIsSafe ==
    (Asked /\ ~InBuffer(maskQuery[1].x, maskQuery[1].y)) =>
        /\ maskQuery[1].mask = FALSE
        /\ maskQuery[1].mask2 = FALSE
        /\ maskQuery[1].color = [r |-> 0, g |-> 0, b |-> 0, brightness |-> 0]

(* C20: checkMask true at a density is true at every greater density. *)
C20_MaskMonotone ==
    (Asked /\ maskQuery[1].density < maskQuery[1].density2 /\ maskQuery[1].mask) =>
        maskQuery[1].mask2

(* the pixel of brightness 111.99999999999999 is in the mask at density 112
   and at density 255 *)
C20_Witness ==
    /\ Asked
    /\ InBuffer(maskQuery[1].x, maskQuery[1].y)
    /\ buf.data[maskQuery[1].y * buf.width + maskQuery[1].x] = TIE_DOWN
    /\ maskQuery[1].density = 112
    /\ maskQuery[1].density2 = 255
    /\ maskQuery[1].mask
    /\ maskQuery[1].mask2

-----------------------------------------------------------------------------
(* ImageProcessor.processImage: the rectangle the source image is drawn into *)

(* sides of the source images tried: 1..MaxImageSide each way *)
MaxImageSide == 3

SourceImages == [width : 1..MaxImageSide, height : 1..MaxImageSide]

CanvasSizes ==
    { [width |-> 100, height |-> 100],
      [width |-> 200, height |-> 100],
      [width |-> 100, height |-> 150] }

MarginPercents == {0, 10, 25, 50}

ScalePercents == {50, 100, 200}

Offsets == {-10, 0, 10}

(* Math.round(Math.min(width, height) * (margin / 100)) for a whole margin
   percentage: halves round up *)
MarginPx(width, height, margin) == (Min(width, height) * margin + 50) \div 100

(* imgAspect > canvasAspect, cross-multiplied: the image is wider than the canvas *)
ImageIsWider(img, width, height) == img.width * height > img.height * width

(* The draw rectangle, lines 586-616.  drawW and drawH are fractions:
   every coordinate is a numerator over the common denominator den.
     wider image:   drawH = height - 2 marginPx,  drawW = drawH * imgAspect
     otherwise:     drawW = width - 2 marginPx,   drawH = drawW / imgAspect
   then both are multiplied by scale / 100, the rectangle is centred on the
   canvas and moved by the offsets. *)
DrawRect(img, o) ==
    LET marginPx == MarginPx(o.width, o.height, o.margin)
        wider == ImageIsWider(img, o.width, o.height)
        base == IF wider THEN o.height - 2 * marginPx ELSE o.width - 2 * marginPx
        den == 200 * (IF wider THEN img.height ELSE img.width)
        drawW == 2 * base * img.width * o.scale
        drawH == 2 * base * img.height * o.scale
    IN  [ den |-> den,
          w |-> drawW,
          h |-> drawH,
          x |-> (o.width * den - drawW) \div 2 + o.offsetX * den,
          y |-> (o.height * den - drawH) \div 2 + o.offsetY * den,
          marginPx |-> marginPx ]

DrawInputs ==
    [ image : SourceImages, canvas : CanvasSizes, margin : MarginPercents,
      scale : ScalePercents, offsetX : Offsets, offsetY : Offsets ]

(* processImage up to its drawImage call, for the inputs drawn at the start *)
ComputeDrawRect ==
    /\ drawCall.rect = <<>>
    /\ drawCall' =
          [drawCall EXCEPT !.rect =
              DrawRect(drawCall.image,
                       [ width |-> drawCall.canvas.width,
                         height |-> drawCall.canvas.height,
                         margin |-> drawCall.margin,
                         scale |-> drawCall.scale,
                         offsetX |-> drawCall.offsetX,
                         offsetY |-> drawCall.offsetY ])]
    /\ UNCHANGED <<placeVars, gridCheckVars, genVars, runVars, filterVars, pageVars,
                   colorCall, runs, state, presets, presetOp>>

InitDraw ==
    /\ sizeTiers = DEFAULT_SIZE_TIERS
    /\ options \in BudgetOptions
    /\ imageData = ImgWhite(BudgetCanvas, BudgetCanvas)
    /\ InitPlacer
    /\ markedBox = <<>>
    /\ selfCollision = FALSE
    /\ InitRenderer
    /\ InitFilterIdle
    /\ \E d \in DrawInputs :
          drawCall = [ image |-> d.image, canvas |-> d.canvas, margin |-> d.margin,
                       scale |-> d.scale, offsetX |-> d.offsetX,
                       offsetY |-> d.offsetY, rect |-> <<>> ]
    /\ colorCall = <<>>
    /\ runs = <<>>
    /\ InitStateManager
    /\ InitPage

NextDraw == ComputeDrawRect

SpecDraw == InitDraw /\ [][NextDraw]_vars

DrawDone == drawCall # <<>> /\ drawCall.rect # <<>>

(* drawW / drawH = image.width / image.height *)
KeepsAspect == drawCall.rect.w * drawCall.image.height = drawCall.rect.h * drawCall.image.width

(* the rectangle lies in [marginPx, width - marginPx] x [marginPx, height - marginPx] *)
InsideMargin ==
    LET r == drawCall.rect
        c == drawCall.canvas
    IN  /\ r.x >= r.marginPx * r.den
        /\ r.y >= r.marginPx * r.den
        /\ r.x + r.w <= (c.width - r.marginPx) * r.den
        /\ r.y + r.h <= (c.height - r.marginPx) * r.den

(* C21: the draw rectangle keeps the source's aspect ratio and, at scale 100
   and zero offsets, lies inside the canvas shrunk by the margin on every
   side, for every image size, canvas size and margin percentage. *)
C21_DrawRectInsideMargin ==
    DrawDone =>
        /\ KeepsAspect
        /\ (drawCall.scale = 100 /\ drawCall.offsetX = 0 /\ drawCall.offsetY = 0)
              => InsideMargin

-----------------------------------------------------------------------------
(* WordPlacer.placeWords called again on the same WordPlacer and canvas *)

(* placeWords runs after the first *)
MaxRuns == 2

(* the number of fillText calls of the run *)
WordsDrawn(drawn, box) == IF box \in DOMAIN drawn THEN drawn[box] ELSE 0

RECURSIVE SumDrawn(_, _)
SumDrawn(drawn, boxes) ==
    IF boxes = {} THEN 0
    ELSE LET b == CHOOSE x \in boxes : TRUE
         IN  WordsDrawn(drawn, b) + SumDrawn(drawn, boxes \ {b})

(* a later call that goes on with the grid of the run before *)
PlaceWordsAgain_keepsGrid ==
    /\ pc = "done"
    /\ Len(runs) < MaxRuns
    /\ runs' = Append(runs, SumDrawn(commits, DOMAIN commits))
    /\ imageData' \in Images(CanvasW, CanvasH)
    /\ UNCHANGED grid
    /\ commits' = <<>>
    /\ lastCommit' = <<>>
    /\ attemptLog' = <<>>
    /\ attemptsDone' = [k \in 1..Len(sizeTiers) |-> 0]
    /\ tierIdx' = 1
    /\ i' = 0
    /\ pc' = "placing"
    /\ UNCHANGED <<sizeTiers, options>>
    /\ UNCHANGED <<gridCheckVars, genVars, runVars, filterVars, pageVars, drawCall, colorCall,
                   state, presets, presetOp>>

(* a later call of placeWords, for a buffer of the same size: line 187
   allocates the grid anew, lines 191-192 fill the canvas white *)
PlaceWordsAgain ==
    /\ pc = "done"
    /\ Len(runs) < MaxRuns
    /\ runs' = Append(runs, SumDrawn(commits, DOMAIN commits))
    /\ imageData' \in Images(CanvasW, CanvasH)
    /\ grid' = [p \in 0..(options.width * options.height - 1) |-> 0]
    /\ commits' = <<>>
    /\ lastCommit' = <<>>
    /\ attemptLog' = <<>>
    /\ attemptsDone' = [k \in 1..Len(sizeTiers) |-> 0]
    /\ tierIdx' = 1
    /\ i' = 0
    /\ pc' = "placing"
    /\ UNCHANGED <<sizeTiers, options>>
    /\ UNCHANGED <<gridCheckVars, genVars, runVars, filterVars, pageVars, drawCall, colorCall,
                   state, presets, presetOp>>

NextRuns ==
    \/ PlaceWordsStart
    \/ Attempt
    \/ TierEnd
    \/ PlaceWordsReturn
    \/ PlaceWordsAgain

SpecRuns == Init /\ [][NextRuns]_vars

(* the run has made no attempt yet *)
RunJustStarted == pc = "placing" /\ tierIdx = 1 /\ i = 0

GridAllFree == \A p \in DOMAIN grid : grid[p] = 0

(* C22: every placeWords run starts with a collision grid in which every cell
   is free, whatever the runs before it placed. *)
C22_FreshGrid ==
    RunJustStarted =>
        /\ DOMAIN grid = 0..(options.width * options.height - 1)
        /\ GridAllFree

(* a run starts after a run that drew words and so marked cells *)
C22_Witness ==
    /\ RunJustStarted
    /\ Len(runs) >= 1
    /\ runs[Len(runs)] >= 1

-----------------------------------------------------------------------------
(* What a placeWords run leaves alone *)

(* the fillText calls of the run so far *)
CommitCount == SumDrawn(commits, DOMAIN commits)

(* C23: placeWords never writes to the processed pixel buffer it is given:
   no step of a run, with or without a commit, changes its contents. *)
C23_BufferUntouched == [][imageData' = imageData]_vars

(* a run is over that drew two words or more *)
C23_Witness == pc = "done" /\ CommitCount >= 2

(* no pixel of the buffer is opaque enough and darker than the density *)
EmptyMask ==
    \A p \in DOMAIN imageData :
        \/ imageData[p].a < MIN_ALPHA
        \/ ~BrightnessBelow(imageData[p].r, imageData[p].g, imageData[p].b,
                            options.density)

(* every tier of the schedule has had all its attempts *)
EveryTierDone ==
    /\ DOMAIN attemptsDone = 1..Len(sizeTiers)
    /\ \A k \in 1..Len(sizeTiers) : attemptsDone[k] = TierBudget(sizeTiers[k])

(* C24: on an empty mask placeWords commits no word in any tier and marks no
   grid cell, raises no error, and returns after every tier has run its
   attempts, the canvas holding nothing but the white fill of lines 191-192. *)
C24_EmptyMask ==
    (EmptyMask /\ pc \in {"placing", "done"}) =>
        /\ commits = <<>>
        /\ lastCommit = <<>>
        /\ GridAllFree
        /\ errors = 0
        /\ pc = "done" => EveryTierDone

(* a run over an empty mask is over, after a run that drew words on the canvas *)
C24_Witness ==
    /\ EmptyMask
    /\ pc = "done"
    /\ Len(runs) >= 1
    /\ runs[Len(runs)] >= 1

-----------------------------------------------------------------------------
(* The list a committed word comes from *)

IsMember(word, list) == \E k \in 1..Len(list) : list[k] = word

(* C30: in a giant tier with a non-empty hero word list every committed word
   is a member of the hero list; in a non-giant tier, or with an empty hero
   list, it is a member of the full word list. *)
C30_WordFromItsList ==
    Committed =>
        LET c == lastCommit[1]
        IN  IF c.scale10 >= GIANT_SCALE10 /\ Len(options.heroWords) > 0
            THEN IsMember(c.word, options.heroWords)
            ELSE IsMember(c.word, options.words)

(* a giant-tier commit of a hero word that is not in the full word list *)
C30_Witness ==
    /\ Committed
    /\ lastCommit[1].scale10 >= GIANT_SCALE10
    /\ Len(options.heroWords) > 0
    /\ IsMember(lastCommit[1].word, options.heroWords)
    /\ ~IsMember(lastCommit[1].word, options.words)

-----------------------------------------------------------------------------
(* colorUtils: rgbToHex followed by hexToRgb *)

(* the largest channel value of an 8-bit colour *)
MAX_CHANNEL == 255

(* channel values tried together in all three channels *)
ChannelValues == {0, 1, 9, 10, 15, 16, 17, 127, 128, 254, MAX_CHANNEL}

(* every 8-bit value in one channel, the other two at 0, and the values
   above in every combination *)
Colours ==
    { <<v, 0, 0>> : v \in 0..MAX_CHANNEL } \cup { <<0, v, 0>> : v \in 0..MAX_CHANNEL }
        \cup { <<0, 0, v>> : v \in 0..MAX_CHANNEL }
        \cup (ChannelValues \X ChannelValues \X ChannelValues)

CallRgbToHex ==
    /\ colorCall # <<>>
    /\ colorCall.hex = <<>>
    /\ colorCall' = [colorCall EXCEPT
                        !.hex = rgbToHex(colorCall.r, colorCall.g, colorCall.b)]
    /\ UNCHANGED <<placeVars, gridCheckVars, genVars, runVars, filterVars, pageVars,
                   drawCall, runs, state, presets, presetOp>>

CallHexToRgb ==
    /\ colorCall # <<>>
    /\ colorCall.hex # <<>>
    /\ colorCall.back = <<>>
    /\ colorCall' = [colorCall EXCEPT !.back = hexToRgb(colorCall.hex)]
    /\ UNCHANGED <<placeVars, gridCheckVars, genVars, runVars, filterVars, pageVars,
                   drawCall, runs, state, presets, presetOp>>

InitColor ==
    /\ sizeTiers = DEFAULT_SIZE_TIERS
    /\ options \in BudgetOptions
    /\ imageData = ImgWhite(BudgetCanvas, BudgetCanvas)
    /\ InitPlacer
    /\ markedBox = <<>>
    /\ selfCollision = FALSE
    /\ InitRenderer
    /\ InitFilterIdle
    /\ drawCall = <<>>
    /\ \E c \in Colours :
          colorCall = [r |-> c[1], g |-> c[2], b |-> c[3], hex |-> <<>>, back |-> <<>>]
    /\ runs = <<>>
    /\ InitStateManager
    /\ InitPage

NextColor ==
    \/ CallRgbToHex
    \/ CallHexToRgb

SpecColor == InitColor /\ [][NextColor]_vars

(* C27: for all whole r, g, b in 0..255, rgbToHex gives "#" followed by
   exactly six lowercase hex digits, and hexToRgb of that string gives back
   r, g and b. *)
C27_HexRoundTrip ==
    /\ (colorCall # <<>> /\ colorCall.hex # <<>>) =>
          /\ Len(colorCall.hex) = 7
          /\ colorCall.hex[1] = "#"
          /\ \A k \in 2..7 : \E d \in 1..16 : HexDigits[d] = colorCall.hex[k]
    /\ (colorCall # <<>> /\ colorCall.back # <<>>) =>
          colorCall.back = [r |-> colorCall.r, g |-> colorCall.g, b |-> colorCall.b]

(* a round trip made for a colour with a channel below 16, one whose hex
   digits are letters and one at 255 *)
C27_Witness ==
    /\ colorCall # <<>>
    /\ colorCall.back # <<>>
    /\ colorCall.r = 10
    /\ colorCall.g = 254
    /\ colorCall.b = MAX_CHANNEL
    /\ colorCall.hex = <<"#", "0", "a", "f", "e", "f", "f">>

-----------------------------------------------------------------------------
(* applyEdgeDetection: what it leaves alone *)

(* C28: applyEdgeDetection leaves unchanged every pixel of the 1-pixel
   border and every alpha value, and with a strength <= 0 it leaves the whole
   buffer unchanged. *)
C28_EdgeFrame ==
    LastIs("applyEdgeDetection") =>
        /\ \A q \in DOMAIN buf.data :
              /\ ~Interior(q % buf.width, q \div buf.width, buf.width, buf.height)
                    => buf.data[q] = bufPrev.data[q]
              /\ buf.data[q].a = bufPrev.data[q].a
        /\ LastCall.arg <= 0 => buf = bufPrev

(* a call that changed the buffer, whose border holds pixels that are not
   white and a half-transparent pixel *)
C28_Witness ==
    /\ LastIs("applyEdgeDetection")
    /\ LastCall.arg > 0
    /\ buf # bufPrev
    /\ \E q \in DOMAIN buf.data :
          /\ ~Interior(q % buf.width, q \div buf.width, buf.width, buf.height)
          /\ buf.data[q].a = 128

-----------------------------------------------------------------------------
(* applyEdgeDetection: its loops and the order of the visits *)

EdgeW == 4
EdgeH == 4

EdgeImages == {FilterImage(EdgeW, EdgeH, shift) : shift \in 0..(Len(FilterPalette) - 1)}

LoopStrengths == {0, 1, 2, 5, 10}

VisitOrders == {"rows", "rowsReversed", "columns"}

CallEdgeDetectionLoop(strength, orderName) ==
    /\ Len(filterLog) < MaxFilterCalls
    /\ bufPrev' = buf
    /\ buf' = [buf EXCEPT !.data =
                  applyEdgeDetectionLoop(buf, strength,
                                         VisitOrder(orderName, buf.width, buf.height))]
    /\ filterLog' = Append(filterLog,
                           [op |-> "applyEdgeDetection", arg |-> strength,
                            color |-> <<>>, input |-> buf.data, order |-> orderName])
    /\ FilterUnchanged

InitEdge ==
    /\ sizeTiers = DEFAULT_SIZE_TIERS
    /\ options \in BudgetOptions
    /\ imageData = ImgWhite(BudgetCanvas, BudgetCanvas)
    /\ InitPlacer
    /\ InitGridCheck
    /\ InitSession
    /\ InitRenderer
    /\ buf \in EdgeImages
    /\ bufPrev = NoImageData
    /\ filterLog = <<>>
    /\ procOptions = DefaultProcOptions
    /\ ipc = "idle"
    /\ maskQuery = <<>>

NextEdge ==
    \E strength \in LoopStrengths, orderName \in VisitOrders :
        CallEdgeDetectionLoop(strength, orderName)

SpecEdge == InitEdge /\ [][NextEdge]_vars

(* the nine neighbours of every interior pixel read from the input as it was
   before the call: the output for the buffer bufPrev *)
EdgeReference(strength) == applyEdgeDetection(bufPrev, strength)

(* C29: whatever the order of the visits, the buffer after applyEdgeDetection
   is the one computed with all nine neighbours of every interior pixel read
   from the untouched input. *)
C29_EdgeFromInputOnly ==
    LastIs("applyEdgeDetection") => buf.data = EdgeReference(LastCall.arg)

(* a call that visited the interior last to first and changed two interior
   pixels next to each other *)
C29_Witness ==
    /\ LastIs("applyEdgeDetection")
    /\ LastCall.order = "rowsReversed"
    /\ buf.data[buf.width + 1] # bufPrev.data[buf.width + 1]
    /\ buf.data[buf.width + 2] # bufPrev.data[buf.width + 2]

-----------------------------------------------------------------------------
(* WordSettings, StateManager and PresetService: the word list, the image
   and the presets *)

(* length of the text typed into the words input *)
MaxTextLen == 3

(* the characters of the text: letters, the two separators and the blank *)
TextChars == {"a", ",", "\n", " "}

Texts == UNION { [1..n -> TextChars] : n \in 0..MaxTextLen }

(* the characters of the class [\n,] *)
Separators == {",", "\n"}

(* white space, as String.prototype.trim takes it away *)
Blanks == {" ", "\n"}

(* rawText.split(/[\n,]+/): the pieces between runs of separators, each a
   sequence of characters, empty pieces at the ends included *)
RECURSIVE Split(_, _, _, _)
Split(text, k, piece, inRun) ==
    IF k > Len(text) THEN <<piece>>
    ELSE IF text[k] \in Separators
         THEN IF inRun THEN Split(text, k + 1, piece, TRUE)
              ELSE <<piece>> \o Split(text, k + 1, <<>>, TRUE)
         ELSE Split(text, k + 1, Append(piece, text[k]), FALSE)

RECURSIVE TrimStart(_)
TrimStart(piece) ==
    IF piece # <<>> /\ piece[1] \in Blanks THEN TrimStart(Tail(piece)) ELSE piece

RECURSIVE TrimEnd(_)
TrimEnd(piece) ==
    IF piece # <<>> /\ piece[Len(piece)] \in Blanks
    THEN TrimEnd(SubSeq(piece, 1, Len(piece) - 1))
    ELSE piece

(* the string of a sequence of characters *)
RECURSIVE JoinChars(_)
JoinChars(piece) == IF piece = <<>> THEN "" ELSE piece[1] \o JoinChars(Tail(piece))

(* w.trim() *)
Trim(piece) == JoinChars(TrimEnd(TrimStart(piece)))

NonEmptyWord(w) == w # ""

(* .split(/[\n,]+/).map(w => w.trim()).filter(w => w.length > 0) *)
ParseWords(text) ==
    LET pieces == Split(text, 1, <<>>, FALSE)
    IN  SelectSeq([k \in 1..Len(pieces) |-> Trim(pieces[k])], NonEmptyWord)

(* the parsed list handed on as it is *)
WordsOrFallback_none(words) == words

(* words.length > 0 ? words : ['Word', 'Portrait'] *)
WordsOrFallback(words) == IF Len(words) > 0 THEN words ELSE <<"Word", "Portrait">>

(* setState(updates): every key of updates is assigned, the others stay *)
setState(st, updates) ==
    [k \in DOMAIN st \cup DOMAIN updates |->
        IF k \in DOMAIN updates THEN updates[k] ELSE st[k]]

(* the serializable state without the word list *)
getSerializableState_noWords(st) == [k \in DOMAIN st \ {"image", "words"} |-> st[k]]

(* const { image, ...serializable } = this._state *)
getSerializableState(st) == [k \in DOMAIN st \ {"image"} |-> st[k]]

(* the serialized state loaded with its image key *)
loadSerializedState_withImage(st, serializedState) == setState(st, serializedState)

(* const { image: _, ...updates } = serializedState; this.setState(updates) *)
loadSerializedState(st, serializedState) ==
    setState(st, [k \in DOMAIN serializedState \ {"image"} |-> serializedState[k]])

(* { ...defaultState, ...preserved } *)
ResetState(st, preserveKeys) ==
    [k \in DOMAIN defaultState \cup (preserveKeys \cap DOMAIN st) |->
        IF k \in preserveKeys \cap DOMAIN st THEN st[k] ELSE defaultState[k]]

PresetNames == {"", " ", "p"}

(* !name || name.trim() === '', over PresetNames *)
IsBlankName(name) == name \in {"", " "}

LoadedImages == {"imgA", "imgB"}

PreserveKeySets == { {}, {"image"}, {"words"} }

SessionUnchanged ==
    UNCHANGED <<placeVars, gridCheckVars, genVars, runVars, filterVars, pageVars,
                drawCall, colorCall, runs>>

(* WordSettings.parseAndUpdateWords, on an input event of the words field *)
parseAndUpdateWords(text) ==
    /\ state' = setState(state, [words |-> WordsOrFallback(ParseWords(text))])
    /\ presetOp' = [op |-> "parseAndUpdateWords", arg |-> text, ok |-> TRUE,
                    imageBefore |-> state.image]
    /\ UNCHANGED presets
    /\ SessionUnchanged

(* ImageUploader: setState({ image }) once the file is decoded *)
SetImage(img) ==
    /\ state' = setState(state, [image |-> img])
    /\ presetOp' = [op |-> "setImage", arg |-> img, ok |-> TRUE,
                    imageBefore |-> state.image]
    /\ UNCHANGED presets
    /\ SessionUnchanged

(* PresetService.savePreset(name) *)
savePreset(name) ==
    /\ presetOp' = [op |-> "savePreset", arg |-> name, ok |-> ~IsBlankName(name),
                    imageBefore |-> state.image]
    /\ IF IsBlankName(name) THEN UNCHANGED <<presets, savedState>>
       ELSE /\ presets' = [n \in DOMAIN presets \cup {name} |->
                              IF n = name THEN getSerializableState(state) ELSE presets[n]]
            /\ savedState' = [n \in DOMAIN savedState \cup {name} |->
                                 IF n = name THEN state ELSE savedState[n]]
    /\ UNCHANGED state
    /\ UNCHANGED <<placeVars, gridCheckVars, genVars, runVars, filterVars, busVars,
                   debounceVars, appVars, stateVars, drawCall, colorCall, runs>>

(* PresetService.loadPreset(name) *)
loadPreset(name) ==
    /\ presetOp' = [op |-> "loadPreset", arg |-> name, ok |-> name \in DOMAIN presets,
                    imageBefore |-> state.image]
    /\ IF name \in DOMAIN presets
       THEN state' = loadSerializedState(state, presets[name])
       ELSE UNCHANGED state
    /\ UNCHANGED presets
    /\ SessionUnchanged

(* StateManager.reset(preserveKeys) *)
reset(preserveKeys) ==
    /\ state' = ResetState(state, preserveKeys)
    /\ presetOp' = [op |-> "reset", arg |-> preserveKeys, ok |-> TRUE,
                    imageBefore |-> state.image]
    /\ UNCHANGED presets
    /\ SessionUnchanged

InitPreset ==
    /\ sizeTiers = DEFAULT_SIZE_TIERS
    /\ options \in BudgetOptions
    /\ imageData = ImgWhite(BudgetCanvas, BudgetCanvas)
    /\ InitPlacer
    /\ InitGridCheck
    /\ InitSession
    /\ InitRenderer
    /\ InitFilterIdle

NextPreset ==
    \/ \E text \in Texts : parseAndUpdateWords(text)
    \/ \E img \in LoadedImages : SetImage(img)
    \/ \E name \in PresetNames : savePreset(name)
    \/ \E name \in PresetNames : loadPreset(name)
    \/ \E preserveKeys \in PreserveKeySets : reset(preserveKeys)

SpecPreset == InitPreset /\ [][NextPreset]_vars

(* the text holds no word: nothing but separators and blanks *)
NoWordIn(text) == \A k \in 1..Len(text) : text[k] \in Separators \cup Blanks

LastOp(op) == presetOp # <<>> /\ presetOp.op = op

(* C25: after any sequence of parseAndUpdateWords, savePreset, loadPreset and
   reset from the default state and an empty preset store, state.words, the
   list processGeneration hands to placeWords, holds at least one word, and
   a text without a word leaves the pair Word, Portrait. *)
C25_WordsNeverEmpty ==
    /\ Len(state.words) >= 1
    /\ \A n \in DOMAIN presets : Len(presets[n].words) >= 1
    /\ (LastOp("parseAndUpdateWords") /\ NoWordIn(presetOp.arg))
          => state.words = <<"Word", "Portrait">>

(* a preset saved while the fallback pair stood in has been loaded *)
C25_Witness ==
    /\ LastOp("loadPreset")
    /\ presetOp.ok
    /\ state.words = <<"Word", "Portrait">>
    /\ state.words = presets[presetOp.arg].words

-----------------------------------------------------------------------------
(* Presets that come from outside: PresetService.importPresets *)

(* preset stores as a JSON text can hold them: with an image key, with
   nothing but an image key, with an empty word list *)
ImportedStores ==
    { [p |-> [words |-> <<"Sun">>, heroWords |-> <<>>, image |-> "imgB", density |-> 90]],
      [p |-> [image |-> null]],
      [q |-> [words |-> <<>>, image |-> "imgA"]] }

(* importPresets(jsonString, merge) for a text that JSON.parse accepts;
   one it rejects changes nothing and returns false *)
importPresets(imported, merge, parses) ==
    /\ presetOp' = [op |-> "importPresets", arg |-> merge, ok |-> parses,
                    imageBefore |-> state.image]
    /\ IF ~parses THEN UNCHANGED presets
       ELSE IF merge
            THEN presets' = [n \in DOMAIN presets \cup DOMAIN imported |->
                                IF n \in DOMAIN imported THEN imported[n] ELSE presets[n]]
            ELSE presets' = imported
    /\ UNCHANGED state
    /\ SessionUnchanged

ImportedNames == PresetNames \cup {"q"}

NextImport ==
    \/ \E img \in LoadedImages : SetImage(img)
    \/ \E name \in ImportedNames : savePreset(name)
    \/ \E name \in ImportedNames : loadPreset(name)
    \/ \E preserveKeys \in PreserveKeySets : reset(preserveKeys)
    \/ \E imported \in ImportedStores, merge \in BOOLEAN, parses \in BOOLEAN :
          importPresets(imported, merge, parses)

SpecImport == InitPreset /\ [][NextImport]_vars

(* C26: the preset savePreset stores holds no image key, and loadPreset
   leaves state.image as it was, whatever the preset loaded contains. *)
C26_ImageNotInPresets ==
    /\ (LastOp("savePreset") /\ presetOp.ok)
          => "image" \notin DOMAIN presets[presetOp.arg]
    /\ LastOp("loadPreset") => state.image = presetOp.imageBefore

(* an image is loaded, and a preset that carries another image has been
   loaded into the state *)
C26_Witness ==
    /\ LastOp("loadPreset")
    /\ presetOp.ok
    /\ state.image = "imgA"
    /\ "image" \in DOMAIN presets[presetOp.arg]
    /\ presets[presetOp.arg].image = "imgB"
    /\ state.words = <<"Sun">>

-----------------------------------------------------------------------------
(* The collision grid during a run *)

(* the cells of the box of a commit, extended by 2 cells on every side and
   clipped to the canvas *)
PaddedCells(c, width, height) ==
    LET startX == BoxStart(c.cx, c.boxW)
        startY == BoxStart(c.cy, c.boxH)
    IN  { y * width + x :
            x \in Max(0, startX - 2)..Min(width - 1, startX + c.boxW + 1),
            y \in Max(0, startY - 2)..Min(height - 1, startY + c.boxH + 1) }

(* C31: a commit sets to 1 exactly the cells of its box extended by 2 cells
   on every side and clipped to the canvas and leaves every other cell as it
   was; a step without a commit leaves the grid as it was; every cell is 0
   or 1, and no step of a run turns an occupied cell back to free. *)
C31_GridOnlyGrows ==
    /\ [](\A p \in DOMAIN grid : grid[p] \in {0, 1})
    /\ [][pc = "placing" =>
            /\ DOMAIN grid' = DOMAIN grid
            /\ \A p \in DOMAIN grid : grid[p] = 1 => grid'[p] = 1
            /\ IF commits' # commits
               THEN \A p \in DOMAIN grid :
                       grid'[p] = IF p \in PaddedCells(lastCommit'[1], options.width,
                                                       options.height)
                                  THEN 1 ELSE grid[p]
               ELSE grid' = grid]_vars

(* two words committed, the padding of the last one cut off by the left or
   the top edge of the canvas, and a cell still free *)
C31_Witness ==
    /\ Committed
    /\ CommitCount >= 2
    /\ \/ BoxStart(lastCommit[1].cx, lastCommit[1].boxW) < 2
       \/ BoxStart(lastCommit[1].cy, lastCommit[1].boxH) < 2
    /\ \E p \in DOMAIN grid : grid[p] = 0

(* C32: every committed word box lies inside the canvas: startX >= 0,
   startY >= 0, startX + boxW < width and startY + boxH < height. *)
C32_BoxInsideCanvas ==
    /\ Committed =>
          LET c == lastCommit[1]
              startX == BoxStart(c.cx, c.boxW)
              startY == BoxStart(c.cy, c.boxH)
          IN  /\ startX >= 0
              /\ startY >= 0
              /\ startX + c.boxW < options.width
              /\ startY + c.boxH < options.height
    /\ \A b \in DOMAIN commits :
          b.x >= 0 /\ b.y >= 0 /\ b.x + b.w < options.width /\ b.y + b.h < options.height

(* a commit whose box ends one cell before the right edge, as far right as
   a box may go *)
C32_Witness ==
    /\ Committed
    /\ lastCommit[1].boxW >= 2
    /\ BoxStart(lastCommit[1].cx, lastCommit[1].boxW) + lastCommit[1].boxW
          = options.width - 1

-----------------------------------------------------------------------------
(* CanvasRenderer.processGeneration: processImage, then placeWords on the
   buffer it returned *)

PipelineOptions ==
    { [width |-> FilterW, height |-> FilterH, words |-> <<"Hi">>, heroWords |-> <<>>,
       fontSize |-> 1, density |-> d, colorMode |-> "source", color |-> HEX_BLACK,
       customPalette |-> <<>>] : d \in {120, 255} }

(* wordPlacer.placeWords(this.ctx, imageData.data, ...), up to the tier loop *)
PlaceWordsOnProcessed ==
    /\ ipc = "returned"
    /\ pc = "idle"
    /\ imageData' = buf.data
    /\ grid' = [p \in 0..(options.width * options.height - 1) |-> 0]
    /\ commits' = <<>>
    /\ lastCommit' = <<>>
    /\ attemptLog' = <<>>
    /\ attemptsDone' = [k \in 1..Len(sizeTiers) |-> 0]
    /\ tierIdx' = 1
    /\ i' = 0
    /\ pc' = "placing"
    /\ UNCHANGED <<sizeTiers, options>>
    /\ UNCHANGED notPlaceVars

InitPipeline ==
    /\ sizeTiers = <<Tier(10, TierAttempts)>>
    /\ options \in PipelineOptions
    /\ imageData = <<>>
    /\ InitPlacer
    /\ InitGridCheck
    /\ InitSession
    /\ InitRenderer
    /\ buf = NoImageData
    /\ bufPrev = NoImageData
    /\ filterLog = <<>>
    /\ procOptions \in ProcOptionSets
    /\ ipc = "idle"
    /\ maskQuery = <<>>

NextPipeline ==
    \/ FillBackground
    \/ DrawImage
    \/ GetImageData
    \/ EdgeStep
    \/ ThresholdStep
    \/ NegativeStep
    \/ PlaceWordsOnProcessed
    \/ Attempt
    \/ TierEnd
    \/ PlaceWordsReturn

SpecPipeline == InitPipeline /\ [][NextPipeline]_vars

(* the applyThreshold call of the run, once made *)
ThresholdCalls == {k \in 1..Len(filterLog) : filterLog[k].op = "applyThreshold"}

(* pixel p was above the cutoff when applyThreshold ran, and was set to white *)
ForcedToWhite(p) ==
    \E k \in ThresholdCalls :
        BrightnessAbove(filterLog[k].input[p].r, filterLog[k].input[p].g,
                        filterLog[k].input[p].b, ThresholdValue(filterLog[k].arg))

(* C33: in processImage followed by placeWords with a density <= 255, no
   word is committed with its centre on a pixel that applyThreshold forced
   to white, with the negative effect on or off. *)
C33_NoCommitOnForcedWhite ==
    (Committed /\ options.density <= 255) =>
        ~ForcedToWhite(lastCommit[1].cy * options.width + lastCommit[1].cx)

(* a word committed with the negative effect on, on a buffer in which
   applyThreshold forced a pixel to white *)
C33_Witness ==
    /\ Committed
    /\ procOptions.negative
    /\ options.density = 255
    /\ \E p \in DOMAIN imageData : ForcedToWhite(p)

-----------------------------------------------------------------------------
(* EventBus: on, once, off, emit, clear.

   listeners is a Map from event names to Set objects.  A Set keeps its
   entries in insertion order; delete leaves a hole that forEach skips,
   add appends unless the value is already present, and forEach visits
   entries appended while it runs.  Map.delete and Map.clear drop the entry
   of the Map and leave the Set object, and any forEach running over it,
   as they are.

   emit is synchronous and listeners run inside it, so every bus call below
   can be made by the page (emitStack empty) or by the listener that the
   innermost emit is running. *)

MaxRegistrations == 2
MaxRemovals == 2
MaxEmits == 2

Callbacks == {"f", "g"}

(* the entry a callback passed to on() makes in the Set: the function *)
Plain(fn) == [fn |-> fn, reg |-> 0]

(* the wrapper made by the k-th registration, a once() call *)
Wrapper(fn, k) == [fn |-> fn, reg |-> k]

Top == emitStack[Len(emitStack)]

(* the page, or a listener that an emit is running, can make a call *)
CallerRuns == IF emitStack = <<>> THEN TRUE ELSE Top.running # 0

(* the entries of a Set's list that are not holes *)
Live(data) == {data[j] : j \in {n \in 1..Len(data) : data[n] # Empty}}

(* Set.prototype.add *)
SetAdd(sd, s, l) ==
    IF l \in Live(sd[s]) THEN sd ELSE [sd EXCEPT ![s] = Append(@, l)]

(* Set.prototype.delete *)
SetDelete(sd, s, l) ==
    [sd EXCEPT ![s] = [j \in 1..Len(@) |-> IF @[j] = l THEN Empty ELSE @[j]]]

(* on(event, callback), lines 22 to 25: the Map and the Sets after it *)
ListenersAfterOn(event) ==
    IF listeners[event] = 0 THEN [listeners EXCEPT ![event] = Len(setData) + 1]
    ELSE listeners

SetDataAfterOn(event, l) ==
    IF listeners[event] = 0
    THEN SetAdd(Append(setData, <<>>), Len(setData) + 1, l)
    ELSE SetAdd(setData, listeners[event], l)

(* off(event, callback): the Sets after it *)
SetDataAfterOff(event, l) ==
    IF listeners[event] # 0 THEN SetDelete(setData, listeners[event], l) ELSE setData

(* the registrations an off(event, callback) call ends *)
Ended(event, fn) ==
    [k \in 1..Len(subs) |->
        IF subs[k].kind = "on" /\ subs[k].event = event /\ subs[k].callback = fn
        THEN [subs[k] EXCEPT !.active = FALSE] ELSE subs[k]]

BusOthersUnchanged ==
    UNCHANGED <<placeVars, gridCheckVars, genVars, runVars, filterVars, savedState, stateVars, appVars, debounceVars,
                drawCall, colorCall, runs, state, presets, presetOp>>

(* eventBus.on(event, callback); the function it returns is kept with the
   registration *)
on(event, callback) ==
    /\ CallerRuns
    /\ Len(subs) < MaxRegistrations
    /\ listeners' = ListenersAfterOn(event)
    /\ setData' = SetDataAfterOn(event, Plain(callback))
    /\ subs' = Append(subs, [kind |-> "on", event |-> event, callback |-> callback,
                             listener |-> Plain(callback), active |-> TRUE,
                             unsubscribed |-> FALSE])
    /\ UNCHANGED <<emitStack, emitLog, invoked, removals>>
    /\ BusOthersUnchanged

(* eventBus.once(event, callback): on(event, wrapper) *)
once(event, callback) ==
    /\ CallerRuns
    /\ Len(subs) < MaxRegistrations
    /\ listeners' = ListenersAfterOn(event)
    /\ setData' = SetDataAfterOn(event, Wrapper(callback, Len(subs) + 1))
    /\ subs' = Append(subs, [kind |-> "once", event |-> event, callback |-> callback,
                             listener |-> Wrapper(callback, Len(subs) + 1),
                             active |-> TRUE, unsubscribed |-> FALSE])
    /\ UNCHANGED <<emitStack, emitLog, invoked, removals>>
    /\ BusOthersUnchanged

(* eventBus.off(event, callback) *)
off(event, callback) ==
    /\ CallerRuns
    /\ removals < MaxRemovals
    /\ setData' = SetDataAfterOff(event, Plain(callback))
    /\ subs' = Ended(event, callback)
    /\ removals' = removals + 1
    /\ UNCHANGED <<listeners, emitStack, emitLog, invoked>>
    /\ BusOthersUnchanged

(* the function returned by the k-th registration, an on() call, is called:
   () => this.off(event, callback) *)
Unsubscribe(k) ==
    /\ CallerRuns
    /\ removals < MaxRemovals
    /\ subs[k].kind = "on"
    /\ setData' = SetDataAfterOff(subs[k].event, Plain(subs[k].callback))
    /\ subs' = [subs EXCEPT ![k].active = FALSE, ![k].unsubscribed = TRUE]
    /\ removals' = removals + 1
    /\ UNCHANGED <<listeners, emitStack, emitLog, invoked>>
    /\ BusOthersUnchanged

(* eventBus.clear(event) *)
clear(event) ==
    /\ CallerRuns
    /\ removals < MaxRemovals
    /\ listeners' = [listeners EXCEPT ![event] = 0]
    /\ subs' = [k \in 1..Len(subs) |->
                  IF subs[k].event = event THEN [subs[k] EXCEPT !.active = FALSE]
                  ELSE subs[k]]
    /\ removals' = removals + 1
    /\ UNCHANGED <<setData, emitStack, emitLog, invoked>>
    /\ BusOthersUnchanged

(* eventBus.clear() *)
clearAll ==
    /\ CallerRuns
    /\ removals < MaxRemovals
    /\ listeners' = [e \in BusEvents |-> 0]
    /\ subs' = [k \in 1..Len(subs) |-> [subs[k] EXCEPT !.active = FALSE]]
    /\ removals' = removals + 1
    /\ UNCHANGED <<setData, emitStack, emitLog, invoked>>
    /\ BusOthersUnchanged

(* eventBus.emit(event, data) is called: without an entry for the event it
   returns at once, otherwise forEach starts on the Set of the event *)
emit(event) ==
    /\ CallerRuns
    /\ Len(emitLog) < MaxEmits
    /\ IF listeners[event] = 0
       THEN /\ emitLog' = Append(emitLog, [event |-> event, atCall |-> {}, done |-> TRUE])
            /\ UNCHANGED emitStack
       ELSE /\ emitLog' = Append(emitLog, [event |-> event,
                                           atCall |-> Live(setData[listeners[event]]),
                                           done |-> FALSE])
            /\ emitStack' = Append(emitStack, [event |-> event, set |-> listeners[event],
                                               next |-> 1, running |-> 0,
                                               emit |-> Len(emitLog) + 1])
    /\ UNCHANGED <<listeners, setData, subs, invoked, removals>>
    /\ BusOthersUnchanged

(* the positions forEach of the innermost emit has still to visit *)
ToVisit ==
    {j \in Top.next..Len(setData[Top.set]) : setData[Top.set][j] # Empty}

NextEntry == CHOOSE j \in ToVisit : \A n \in ToVisit : j <= n

(* the wrapper `wrapper` of once() starts: this.off(event, wrapper) goes
   through the Map as it is now *)
SetDataAfterWrapper(event, wrapper) == SetDataAfterOff(event, wrapper)

(* forEach of the innermost emit calls the next listener; a wrapper of
   once() unsubscribes itself and calls its callback *)
InvokeNext ==
    /\ emitStack # <<>>
    /\ Top.running = 0
    /\ ToVisit # {}
    /\ LET l == setData[Top.set][NextEntry]
       IN  /\ setData' = IF l.reg # 0 THEN SetDataAfterWrapper(Top.event, l) ELSE setData
           /\ subs' = IF l.reg # 0 THEN [subs EXCEPT ![l.reg].active = FALSE] ELSE subs
           /\ invoked' = Append(invoked, [listener |-> l, emit |-> Top.emit, threw |-> FALSE])
           /\ emitStack' = [emitStack EXCEPT ![Len(emitStack)].next = NextEntry + 1,
                                             ![Len(emitStack)].running = Len(invoked) + 1]
    /\ UNCHANGED <<listeners, emitLog, removals>>
    /\ BusOthersUnchanged

(* the running listener returns, or throws into the catch of emit, which
   logs the error; forEach goes on either way *)
ListenerEnds(throws) ==
    /\ emitStack # <<>>
    /\ Top.running # 0
    /\ invoked' = [invoked EXCEPT ![Top.running].threw = throws]
    /\ emitStack' = [emitStack EXCEPT ![Len(emitStack)].running = 0]
    /\ UNCHANGED <<listeners, setData, subs, emitLog, removals>>
    /\ BusOthersUnchanged

(* forEach has no entry left: emit returns *)
EmitReturns ==
    /\ emitStack # <<>>
    /\ Top.running = 0
    /\ ToVisit = {}
    /\ emitLog' = [emitLog EXCEPT ![Top.emit].done = TRUE]
    /\ emitStack' = SubSeq(emitStack, 1, Len(emitStack) - 1)
    /\ UNCHANGED <<listeners, setData, subs, invoked, removals>>
    /\ BusOthersUnchanged

InitBus ==
    /\ sizeTiers = DEFAULT_SIZE_TIERS
    /\ options \in BudgetOptions
    /\ imageData = ImgWhite(BudgetCanvas, BudgetCanvas)
    /\ InitPlacer
    /\ InitGridCheck
    /\ InitSession
    /\ InitRenderer
    /\ InitFilterIdle

NextBus ==
    \/ \E e \in BusEvents, f \in Callbacks : on(e, f)
    \/ \E e \in BusEvents, f \in Callbacks : once(e, f)
    \/ \E e \in BusEvents, f \in Callbacks : off(e, f)
    \/ \E k \in 1..Len(subs) : Unsubscribe(k)
    \/ \E e \in BusEvents : clear(e)
    \/ clearAll
    \/ \E e \in BusEvents : emit(e)
    \/ InvokeNext
    \/ \E throws \in BOOLEAN : ListenerEnds(throws)
    \/ EmitReturns

SpecBus == InitBus /\ [][NextBus]_vars

(* the invocations of listener l made by the emit call number e *)
Invocations(l, e) ==
    {n \in 1..Len(invoked) : invoked[n].listener = l /\ invoked[n].emit = e}

(* C34: emit(event, data) calls every listener subscribed to the event at
   the time of the call exactly once, also when an earlier listener throws. *)
C34_EveryListenerOnce ==
    \A e \in 1..Len(emitLog) :
        emitLog[e].done =>
            \A l \in emitLog[e].atCall : Cardinality(Invocations(l, e)) = 1

(* the listener of registration k is in the Set that emit(event) would visit *)
Subscribed(k) ==
    /\ listeners[subs[k].event] # 0
    /\ subs[k].listener \in Live(setData[listeners[subs[k].event]])

(* C35: calling the function returned by on(event, callback) stops that
   subscription from being invoked by later emits and leaves every other
   subscription active, after any sequence of on, off, once, emit and
   clear: a subscription made by on() that was ended neither by its own
   unsubscribe function nor by off or clear is still subscribed, and one
   ended by its unsubscribe function is not, unless the callback was
   subscribed again. *)
C35_UnsubscribeOnlyItsOwn ==
    \A k \in 1..Len(subs) :
        subs[k].kind = "on" =>
            /\ subs[k].active => Subscribed(k)
            /\ (/\ subs[k].unsubscribed
                /\ \A n \in 1..Len(subs) :
                      (subs[n].event = subs[k].event /\ subs[n].callback = subs[k].callback)
                          => ~subs[n].active)
                    => ~Subscribed(k)

(* the invocations of the callback of the once() registration k *)
OnceInvocations(k) == {n \in 1..Len(invoked) : invoked[n].listener = subs[k].listener}

(* C36: a callback registered with once(event, callback) is invoked at
   most once, also when listeners emit the same event again. *)
C36_OnceAtMostOnce ==
    \A k \in 1..Len(subs) :
        subs[k].kind = "once" => Cardinality(OnceInvocations(k)) <= 1

-----------------------------------------------------------------------------
(* debounce(func, wait) as ResolutionSettings.bindEvents uses it for the
   density slider: func is (value) => this.setState({ density: value }) and
   wait is 300.

   Time advances in steps of a third of the wait.  setTimeout(cb, wait)
   makes a timer due at now + wait that runs once the time is reached, and
   the time does not pass a due timer; clearTimeout removes the timer.
   Timer ids are positive integers, so a set timeoutId is truthy. *)

DEBOUNCE_WAIT == 300

Step == DEBOUNCE_WAIT \div 3

MaxSteps == 8
MaxInputs == 3

DensityValues == {60, 200}

TimerDue == \E t \in timerTasks : t.due <= now

(* clearTimeout(id) *)
clearTimeout(tasks, id) == {t \in tasks : t.id # id}

(* the timers left as they are, without the clearTimeout call *)
TasksAfterClear_kept == timerTasks

(* if (timeoutId) clearTimeout(timeoutId), lines 15 to 17 *)
TasksAfterClear == IF timeoutId # 0 THEN clearTimeout(timerTasks, timeoutId) ELSE timerTasks

DebounceOthersUnchanged ==
    UNCHANGED <<placeVars, gridCheckVars, genVars, runVars, filterVars, savedState, stateVars, appVars, busVars,
                drawCall, colorCall, runs, presets, presetOp>>

(* an input event of the density slider: debouncedDensity(parseInt(value));
   an event that arrives when a timer is due is handled after the timer *)
debounced(value) ==
    /\ Len(callLog) < MaxInputs
    /\ ~TimerDue
    /\ callLog' = Append(callLog, [at |-> now, arg |-> value])
    /\ timerTasks' = TasksAfterClear \cup
                        {[id |-> Len(callLog) + 1, due |-> now + DEBOUNCE_WAIT,
                          args |-> value, call |-> Len(callLog) + 1]}
    /\ timeoutId' = Len(callLog) + 1
    /\ UNCHANGED <<now, funcLog, state>>
    /\ DebounceOthersUnchanged

(* a timer set by the debounced function runs: func.apply(context, args),
   here setState({ density: value }), then timeoutId = null *)
TimerFires ==
    /\ \E t \in timerTasks :
          /\ t.due <= now
          /\ timerTasks' = timerTasks \ {t}
          /\ state' = setState(state, [density |-> t.args])
          /\ funcLog' = Append(funcLog, [at |-> now, arg |-> t.args, call |-> t.call])
    /\ timeoutId' = 0
    /\ UNCHANGED <<now, callLog>>
    /\ DebounceOthersUnchanged

(* time passes while no timer is due *)
TimePasses ==
    /\ now < MaxSteps * Step
    /\ ~TimerDue
    /\ now' = now + Step
    /\ UNCHANGED <<timeoutId, timerTasks, callLog, funcLog, state>>
    /\ DebounceOthersUnchanged

InitTimers ==
    /\ sizeTiers = DEFAULT_SIZE_TIERS
    /\ options \in BudgetOptions
    /\ imageData = ImgWhite(BudgetCanvas, BudgetCanvas)
    /\ InitPlacer
    /\ InitGridCheck
    /\ InitSession
    /\ InitRenderer
    /\ InitFilterIdle

NextTimers ==
    \/ \E value \in DensityValues : debounced(value)
    \/ TimerFires
    \/ TimePasses

SpecTimers == InitTimers /\ [][NextTimers]_vars

(* the runs of func made by the timer of call k *)
RunsOf(k) == {n \in 1..Len(funcLog) : funcLog[n].call = k}

(* call k was followed by another call less than the wait later *)
Superseded(k) == k < Len(callLog) /\ callLog[k + 1].at - callLog[k].at < DEBOUNCE_WAIT

(* C39: a function made by debounce(func, wait) invokes func only after
   wait milliseconds have passed with no further call: of calls with gaps
   shorter than wait only the last one leads to a run of func, exactly one,
   wait milliseconds after that call and with its arguments. *)
C39_DebounceLastCall ==
    /\ \A n \in 1..Len(funcLog) :
          /\ funcLog[n].at = callLog[funcLog[n].call].at + DEBOUNCE_WAIT
          /\ funcLog[n].arg = callLog[funcLog[n].call].arg
          /\ ~Superseded(funcLog[n].call)
          /\ \A k \in 1..Len(callLog) :
                ~(callLog[k].at > callLog[funcLog[n].call].at /\ callLog[k].at < funcLog[n].at)
    /\ \A k \in 1..Len(callLog) :
          /\ Cardinality(RunsOf(k)) <= 1
          /\ Superseded(k) => RunsOf(k) = {}
          /\ (~Superseded(k) /\ now > callLog[k].at + DEBOUNCE_WAIT) => RunsOf(k) # {}
    /\ state.density \in {defaultState.density} \cup {funcLog[n].arg : n \in 1..Len(funcLog)}

(* three calls with gaps shorter than the wait and different arguments,
   and func has run once, for the last of them *)
C39_Witness ==
    /\ Len(callLog) = 3
    /\ Superseded(1)
    /\ Superseded(2)
    /\ callLog[1].at < callLog[2].at
    /\ callLog[2].arg # callLog[3].arg
    /\ Len(funcLog) = 1
    /\ funcLog[1].call = 3
    /\ state.density = callLog[3].arg

-----------------------------------------------------------------------------
(* App: init, _bootstrap, destroy, and the DOMContentLoaded event *)

MaxInitCalls == 3
MaxDestroyCalls == 2

(* the factories _bootstrap calls, createAccordion to createPresetPanel *)
COMPONENT_COUNT == 8

(* _bootstrap(): the components are created and held, and _initialized is
   set; a throw on the way is caught, after `made` components were created,
   and leaves components and _initialized as they were *)
Bootstrapped(throws, made) ==
    /\ bootstrapRuns' = bootstrapRuns + 1
    /\ IF throws
       THEN /\ componentsMade' = componentsMade + made
            /\ UNCHANGED <<components, initialized>>
       ELSE /\ componentsMade' = componentsMade + COMPONENT_COUNT
            /\ components' = COMPONENT_COUNT
            /\ initialized' = TRUE

FailurePoints == {0, 1}

AppOthersUnchanged ==
    UNCHANGED <<placeVars, gridCheckVars, genVars, runVars, filterVars, savedState, stateVars, busVars,
                debounceVars, drawCall, colorCall, runs, state, presets, presetOp>>

(* app.init() *)
AppInit(throws, made) ==
    /\ dispatching = 0
    /\ appCalls.init < MaxInitCalls
    /\ appCalls' = [appCalls EXCEPT !.init = @ + 1]
    /\ IF initialized
       THEN UNCHANGED <<domListeners, bootstrapRuns, componentsMade, components, initialized>>
       ELSE IF readyState = "loading"
            THEN /\ domListeners' = domListeners + 1
                 /\ UNCHANGED <<bootstrapRuns, componentsMade, components, initialized>>
            ELSE /\ Bootstrapped(throws, made)
                 /\ UNCHANGED domListeners
    /\ UNCHANGED <<readyState, dispatching>>
    /\ AppOthersUnchanged

(* the document has been parsed: readyState changes and DOMContentLoaded
   is dispatched to the listeners added so far *)
DOMContentLoaded ==
    /\ readyState = "loading"
    /\ dispatching = 0
    /\ readyState' = "interactive"
    /\ dispatching' = domListeners
    /\ UNCHANGED <<initialized, domListeners, components, componentsMade,
                   bootstrapRuns, appCalls>>
    /\ AppOthersUnchanged

(* the event calls its next listener: () => this._bootstrap() *)
ListenerBootstraps(throws, made) ==
    /\ dispatching > 0
    /\ dispatching' = dispatching - 1
    /\ Bootstrapped(throws, made)
    /\ UNCHANGED <<readyState, domListeners, appCalls>>
    /\ AppOthersUnchanged

(* app.destroy() *)
AppDestroy ==
    /\ dispatching = 0
    /\ appCalls.destroy < MaxDestroyCalls
    /\ appCalls' = [appCalls EXCEPT !.destroy = @ + 1]
    /\ components' = 0
    /\ initialized' = FALSE
    /\ componentsMade' = 0
    /\ bootstrapRuns' = 0
    /\ UNCHANGED <<readyState, domListeners, dispatching>>
    /\ AppOthersUnchanged

InitAppSpec ==
    /\ sizeTiers = DEFAULT_SIZE_TIERS
    /\ options \in BudgetOptions
    /\ imageData = ImgWhite(BudgetCanvas, BudgetCanvas)
    /\ InitPlacer
    /\ InitGridCheck
    /\ InitSession
    /\ InitRenderer
    /\ InitFilterIdle

NextApp ==
    \/ \E throws \in BOOLEAN, made \in FailurePoints :
          AppInit(throws, made)
    \/ DOMContentLoaded
    \/ \E throws \in BOOLEAN, made \in FailurePoints :
          ListenerBootstraps(throws, made)
    \/ AppDestroy

SpecApp == InitAppSpec /\ [][NextApp]_vars

(* C40: however many times init() is called without a destroy() in
   between, _bootstrap runs at most once and the components are created
   once, also when init() is called more than once while the document is
   still loading. *)
C40_BootstrapOnce ==
    /\ bootstrapRuns <= 1
    /\ componentsMade <= COMPONENT_COUNT

-----------------------------------------------------------------------------
(* StateManager.setState(updates, silent) with its notifications.

   The values of words and heroWords are arrays, which !== compares by
   identity: a call passes either the array the state holds or another
   array, with the same content or not.  `held` names the keys of updates
   whose value is the array the state holds. *)

MaxSubscribers == 2

ArrayKeys == {"words", "heroWords"}

UpdateKeys == {"density", "words", "image"}

DensityInputs == {defaultState.density, 60, NaN}

WordLists == {defaultState.words, <<"Hi">>}

ImageInputs == {null, "imgA"}

UpdateRecords ==
    UNION { { [k \in K |-> IF k = "density" THEN d ELSE IF k = "words" THEN w ELSE im] :
                d \in DensityInputs, w \in WordLists, im \in ImageInputs } :
            K \in SUBSET UpdateKeys }

(* this._state[key] !== value *)
StrictlyDiffers(key, current, value, held) ==
    IF key \in ArrayKeys THEN key \notin held
    ELSE IF key = "density" THEN value = NaN \/ current # value
    ELSE current # value

(* every key of updates pushed, without the test *)
ChangedKeySet_everyKey(st, updates, held) == DOMAIN updates

(* the keys the forEach of lines 93 to 98 pushes *)
ChangedKeySet(st, updates, held) ==
    {k \in DOMAIN updates : StrictlyDiffers(k, st[k], updates[k], held)}

(* const prevState = { ...this._state }, taken before the loop *)
PrevState(before, after) == before

KeyOrder == <<"words", "heroWords", "image", "density">>

(* changedKeys: the changed keys, here in the order of KeyOrder *)
KeyList(keys) == SelectSeq(KeyOrder, LAMBDA k : k \in keys)

(* stateManager.subscribe(callback) *)
subscribe ==
    /\ subscribers < MaxSubscribers
    /\ subscribers' = subscribers + 1
    /\ UNCHANGED <<state, stateCall, notified>>
    /\ UNCHANGED <<placeVars, gridCheckVars, genVars, runVars, filterVars, busVars,
                   debounceVars, appVars, savedState, drawCall, colorCall, runs, presets,
                   presetOp>>

(* stateManager.setState(updates, silent): the keys that differ are
   assigned; unless silent or nothing changed, every subscriber is called
   with (this._state, prevState, changedKeys) and STATE_CHANGED is emitted
   with { current, previous, changed } *)
SetStateCall(updates, held, silent) ==
    /\ \A k \in held : updates[k] = state[k]
    /\ LET changed == ChangedKeySet(state, updates, held)
           after == [k \in DOMAIN state |-> IF k \in changed THEN updates[k] ELSE state[k]]
           note(to) == [to |-> to, current |-> after, previous |-> PrevState(state, after),
                        changed |-> KeyList(changed)]
       IN  /\ state' = after
           /\ stateCall' = [updates |-> updates, held |-> held, silent |-> silent,
                            before |-> state, subscribers |-> subscribers]
           /\ notified' = IF changed # {} /\ ~silent
                          THEN [n \in 1..subscribers |-> note("subscriber")]
                                  \o <<note(STATE_CHANGED)>>
                          ELSE <<>>
    /\ UNCHANGED subscribers
    /\ UNCHANGED <<placeVars, gridCheckVars, genVars, runVars, filterVars, busVars,
                   debounceVars, appVars, savedState, drawCall, colorCall, runs, presets,
                   presetOp>>

InitState ==
    /\ sizeTiers = DEFAULT_SIZE_TIERS
    /\ options \in BudgetOptions
    /\ imageData = ImgWhite(BudgetCanvas, BudgetCanvas)
    /\ InitPlacer
    /\ InitGridCheck
    /\ InitSession
    /\ InitRenderer
    /\ InitFilterIdle

NextState ==
    \/ subscribe
    \/ \E updates \in UpdateRecords, silent \in BOOLEAN :
          \E held \in SUBSET (ArrayKeys \cap DOMAIN updates) :
             SetStateCall(updates, held, silent)

SpecState == InitState /\ [][NextState]_vars

SetStateCalled == stateCall # <<>>

(* the value passed for key k is not the value the state held: another
   array, whatever its content, for an array key, and a different number or
   string, or NaN, for the others *)
NotTheHeldValue(k) ==
    IF k \in ArrayKeys THEN k \notin stateCall.held
    ELSE IF k = "density"
         THEN stateCall.updates[k] = NaN \/ stateCall.updates[k] # stateCall.before[k]
         ELSE stateCall.updates[k] # stateCall.before[k]

(* the content passed for key k is not the content the state held *)
ContentDiffers(k) == stateCall.updates[k] # stateCall.before[k]

(* what the call has to do when `differing` are the keys that differ *)
SetStateDoes(differing) ==
    /\ (notified # <<>>) <=> (differing # {} /\ ~stateCall.silent)
    /\ notified # <<>> =>
          /\ Len(notified) = stateCall.subscribers + 1
          /\ notified[Len(notified)].to = STATE_CHANGED
          /\ \A n \in 1..Len(notified) :
                /\ n <= stateCall.subscribers => notified[n].to = "subscriber"
                /\ {notified[n].changed[j] : j \in 1..Len(notified[n].changed)} = differing
                /\ Len(notified[n].changed) = Cardinality(differing)
                /\ notified[n].previous = stateCall.before
                /\ notified[n].current = state
    /\ \A k \in DOMAIN state \ DOMAIN stateCall.updates : state[k] = stateCall.before[k]
    /\ \A k \in DOMAIN stateCall.updates : state[k] = stateCall.updates[k]

(* C37: setState(updates, silent) notifies the subscribers and emits
   STATE_CHANGED exactly when at least one key of updates differs from its
   current value and silent is false; the changed keys are exactly the keys
   whose value differed, the previous state passed along is the state
   before the call, and keys absent from updates keep their value. *)
C37_NotifiesOnDifference ==
    SetStateCalled => SetStateDoes({k \in DOMAIN stateCall.updates : ContentDiffers(k)})

(* C37 with the comparison the code makes: a key differs when the value
   passed is not the value held, so an array other than the one the state
   holds differs even with the same content, and NaN differs from NaN. *)
C37_NotifiesOnOtherValue ==
    SetStateCalled => SetStateDoes({k \in DOMAIN stateCall.updates : NotTheHeldValue(k)})

(* a call that passes another array with the words the state already has,
   and a density that is the current one: two subscribers and the bus are
   told that words changed *)
C37_Witness ==
    /\ SetStateCalled
    /\ DOMAIN stateCall.updates = {"words", "density"}
    /\ stateCall.held = {}
    /\ ~ContentDiffers("words")
    /\ ~ContentDiffers("density")
    /\ stateCall.updates["density"] # NaN
    /\ stateCall.subscribers = 2
    /\ Len(notified) = 3
    /\ notified[1].changed = <<"words">>

-----------------------------------------------------------------------------
(* Presets: save, state changes, load *)

(* PresetService.deletePreset(name) *)
deletePreset(name) ==
    /\ presetOp' = [op |-> "deletePreset", arg |-> name, ok |-> name \in DOMAIN presets,
                    imageBefore |-> state.image]
    /\ presets' = [n \in DOMAIN presets \ {name} |-> presets[n]]
    /\ savedState' = [n \in DOMAIN savedState \ {name} |-> savedState[n]]
    /\ UNCHANGED state
    /\ UNCHANGED <<placeVars, gridCheckVars, genVars, runVars, filterVars, busVars,
                   debounceVars, appVars, stateVars, drawCall, colorCall, runs>>

(* ResolutionSettings: setState({ density: value }) *)
SetDensity(value) ==
    /\ state' = setState(state, [density |-> value])
    /\ presetOp' = [op |-> "setDensity", arg |-> value, ok |-> TRUE,
                    imageBefore |-> state.image]
    /\ UNCHANGED presets
    /\ SessionUnchanged

RoundTripTexts == {<<"a">>, <<>>}

RoundTripNames == {"", "p", "q"}

NextRoundTrip ==
    \/ \E text \in RoundTripTexts : parseAndUpdateWords(text)
    \/ \E value \in DensityValues : SetDensity(value)
    \/ \E img \in LoadedImages : SetImage(img)
    \/ \E name \in RoundTripNames : savePreset(name)
    \/ \E name \in RoundTripNames : loadPreset(name)
    \/ \E name \in RoundTripNames : deletePreset(name)
    \/ \E preserveKeys \in PreserveKeySets : reset(preserveKeys)

SpecRoundTrip == InitPreset /\ [][NextRoundTrip]_vars

(* C38: after savePreset(n), any state changes with no other save or
   delete of n, and loadPreset(n), every state field other than image has
   the value it had at the time of the save. *)
C38_PresetRoundTrip ==
    (LastOp("loadPreset") /\ presetOp.arg \in DOMAIN savedState) =>
        /\ presetOp.ok
        /\ DOMAIN state = DOMAIN savedState[presetOp.arg]
        /\ \A k \in DOMAIN state \ {"image"} : state[k] = savedState[presetOp.arg][k]

(* a preset loaded after the words, the density and the image were changed
   since it was saved, and another preset was saved and loaded *)
C38_Witness ==
    /\ LastOp("loadPreset")
    /\ presetOp.arg = "p"
    /\ "p" \in DOMAIN savedState
    /\ "q" \in DOMAIN savedState
    /\ savedState["p"].words # savedState["q"].words
    /\ savedState["p"].density # savedState["q"].density
    /\ savedState["p"].words # defaultState.words
    /\ savedState["p"].image # state.image
    /\ state.image = presetOp.imageBefore
    /\ state.density = savedState["p"].density

====
